---- MODULE Spec2Model ----
(***************************************************************************)
(* Latent Resonator -- ACE-Step bridge server.                             *)
(*                                                                         *)
(* A state-machine model of Scripts/ace_bridge_server.py: the model        *)
(* wrapper (ACEStepWrapper: load / infer), the module-level MPS patch, the *)
(* worker threads that serve /infer, and the manual WAV codec.             *)
(***************************************************************************)
EXTENDS Integers, Sequences, FiniteSets, TLC

VARIABLES
    \* ---- ACEStepWrapper fields (ace_bridge_server.py 143-151) ----
    model,              \* self.model: None, or the pipeline object
    model_path,         \* self.model_path
    is_loaded,          \* self.is_loaded
    device,             \* self.device
    requested_device,   \* self._requested_device
    load_error,         \* self.load_error
    inference_count,    \* self.inference_count
    model_type,         \* self.model_type
    \* ---- process environment ----
    env,                \* what is installed / which accelerators exist, argv
    mps_patched,        \* the module-level monkey-patch was applied
    \* ---- observation of the collaborators (mock engine, caller) ----
    engine_calls,       \* number of times self.model(**kwargs) was entered
    engine_returns,     \* number of calls that returned the engine's audio
    call,               \* what the last completed load / infer call did
    \* ---- worker threads serving /infer (waitress) ----
    th,                 \* per request: program counter and locals
    tmp_input,          \* content of <tmp>/nr_bridge_input.wav
    \* ---- manual WAV codec runs ----
    codec,              \* stage, input buffer, bytes, decoded result
    \* ---- generate_koenig_seed.py ----
    gen,                \* the euclidean_rhythm call: position and locals
    phase               \* "ctor": __init__ has set the fields and its load
                        \* is still to run; "ready": the wrapper is in use

vars == << model, model_path, is_loaded, device, requested_device, load_error,
           inference_count, model_type, env, mps_patched, engine_calls,
           engine_returns, call, th, tmp_input, codec, gen, phase >>

wrapperVars == << model, model_path, is_loaded, device, requested_device,
                  load_error, inference_count, model_type >>

-----------------------------------------------------------------------------
(* Bounds of the model.                                                    *)

\* Engine invocations explored per behaviour.
MaxEngineCalls == 2
\* Length of the audio buffers handed to infer.
MaxAudioLen == 1
\* /infer requests in flight together.
NumRequests == 2
\* Length of the buffers put through the WAV codec.
MaxCodecLen == 2

None == "None"

-----------------------------------------------------------------------------
(* Small helpers.                                                          *)

Min(a, b) == IF a <= b THEN a ELSE b
Max(a, b) == IF a >= b THEN a ELSE b

-----------------------------------------------------------------------------
(* Command line and the module-level MPS patch.                            *)

\* The --device choices argparse accepts (main, line 777).
DeviceChoices == {"cpu", "mps", "cuda", "auto"}

\* A command-line token is the sequence of its characters; the characters
\* used are letters, digits, "-" and "=".
Chars(w) ==
    CASE w = "cpu"  -> <<"c", "p", "u">>
      [] w = "mps"  -> <<"m", "p", "s">>
      [] w = "cuda" -> <<"c", "u", "d", "a">>
      [] w = "auto" -> <<"a", "u", "t", "o">>
      [] w = "--device" -> <<"-", "-", "d", "e", "v", "i", "c", "e">>

\* Lines 756-784: the option strings of the parser, -h and --help that
\* argparse adds included, with the number of arguments each takes and
\* how its value is converted.
Options ==
    { [name |-> <<"-", "h">>, nargs |-> 0, type |-> "help"],
      [name |-> <<"-", "-", "h", "e", "l", "p">>, nargs |-> 0, type |-> "help"],
      [name |-> <<"-", "-", "p", "o", "r", "t">>, nargs |-> 1, type |-> "int"],
      [name |-> <<"-", "-", "h", "o", "s", "t">>, nargs |-> 1, type |-> "str"],
      [name |-> <<"-", "-", "m", "o", "d", "e", "l", "-", "p", "a", "t", "h">>,
       nargs |-> 1, type |-> "str"],
      [name |-> <<"-", "-", "d", "e", "b", "u", "g">>, nargs |-> 0,
       type |-> "flag"],
      [name |-> Chars("--device"), nargs |-> 1, type |-> "device"] }

\* Command lines the server can be started with: no option, --device with
\* its value as the next token or joined by "=", and the abbreviation
\* --dev that argparse takes for --device.
Argvs ==
    { <<>>, << Chars("--device") \o <<"=">> \o Chars("mps") >>,
      << Chars("--device") \o <<"=">> \o Chars("auto") >>,
      << SubSeq(Chars("--device"), 1, 5), Chars("mps") >>,
      << SubSeq(Chars("--device"), 1, 5) \o <<"=">> \o Chars("auto") >> }
      \cup { << Chars("--device"), Chars(d) >> : d \in DeviceChoices }

\* Lines 84-88: the early scan looks for the exact token "--device" followed
\* by another token; anything else leaves the default "cpu".
RawDevice(argv) ==
    LET hits == { i \in 1..Len(argv) : argv[i] = Chars("--device") /\ i + 1 <= Len(argv) }
    IN  IF hits = {} THEN Chars("cpu")
        ELSE argv[(CHOOSE i \in hits : \A j \in hits : i <= j) + 1]

\* Line 785: parser.parse_args(). A token that does not begin with "-", or
\* is a negative number, is an argument; another token is an option: one
\* of the option strings, or such a string or a prefix of it (argparse
\* allows abbreviations) before an "=" and a value. A prefix of two option
\* strings ends the parse before anything is read. An option that takes an
\* argument uses the value after "=" or else the next token, which must be
\* an argument; stray arguments and unknown options are reported once the
\* line is read, so a -h before the end still prints the help. A token
\* "--" ends the options: it and what follows it are stray. The result
\* is ok with the device (the last --device wins, "cpu" when there is
\* none), or the parser's exit: status 0 after -h, status 2 after an error.
ParseArgs(argv) ==
    LET Digits == {"0", "1", "2", "3", "4", "5", "6", "7", "8", "9"}
        IsPrefix(p, t) == Len(p) <= Len(t) /\ SubSeq(t, 1, Len(p)) = p
        IsNumber(t) == Len(t) >= 1 /\ \A i \in 1..Len(t) : t[i] \in Digits
        IsNegative(t) == Len(t) >= 2 /\ t[1] = "-" /\ IsNumber(Tail(t))
        Eq(t) == LET at == { i \in 1..Len(t) : t[i] = "=" }
                 IN  IF at = {} THEN 0 ELSE CHOOSE i \in at : \A j \in at : i <= j
        Head_(t) == IF Eq(t) = 0 THEN t ELSE SubSeq(t, 1, Eq(t) - 1)
        Named(t) == { o \in Options : o.name = t }
        Split(t) == Eq(t) > 0 /\ Named(Head_(t)) # {}
        \* _parse_optional and _get_option_tuples
        Matches(t) ==
            IF Named(t) # {} THEN Named(t)
            ELSE IF Split(t) THEN Named(Head_(t))
            ELSE IF Len(t) >= 2 /\ t[2] = "-"
            THEN { o \in Options : IsPrefix(Head_(t), o.name) }
            ELSE { o \in Options :
                     o.name = SubSeq(t, 1, 2) \/ IsPrefix(t, o.name) }
        \* the first "--", after which nothing is an option
        Sep == LET at == { i \in 1..Len(argv) : argv[i] = <<"-", "-">> }
               IN  IF at = {} THEN Len(argv) + 1
                   ELSE CHOOSE i \in at : \A j \in at : i <= j
        IsArgument(i) ==
            LET t == argv[i]
            IN  \/ i > Sep
                \/ /\ i < Sep
                   /\ \/ t = << >> \/ t[1] # "-" \/ t = <<"-">>
                      \/ IsNegative(t) /\ Matches(t) = {}
        IsOption(i) == i < Sep /\ ~IsArgument(i)
        Explicit(t) ==
            IF Named(t) # {} THEN [given |-> FALSE, v |-> << >>]
            ELSE IF Len(t) >= 2 /\ t[2] # "-" /\ ~Split(t)
            THEN [given |-> TRUE, v |-> SubSeq(t, 3, Len(t))]
            ELSE IF Eq(t) = 0 THEN [given |-> FALSE, v |-> << >>]
            ELSE [given |-> TRUE, v |-> SubSeq(t, Eq(t) + 1, Len(t))]
        Exit(status) == [ok |-> FALSE, status |-> status, device |-> None]
        Converts(o, v) ==
            CASE o.type = "int" -> IsNumber(v) \/ IsNegative(v)
              [] o.type = "device" -> \E d \in DeviceChoices : Chars(d) = v
              [] OTHER -> TRUE
        Ambiguous ==
            \E i \in 1..Len(argv) :
               IsOption(i) /\ Cardinality(Matches(argv[i])) > 1
        RECURSIVE Consume(_, _, _)
        Consume(i, dev, extras) ==
            IF i > Len(argv)
            THEN IF extras THEN Exit(2)
                 ELSE [ok |-> TRUE, status |-> 0, device |-> dev]
            ELSE IF ~IsOption(i) \/ Matches(argv[i]) = {}
            THEN Consume(i + 1, dev, TRUE)
            ELSE LET o == CHOOSE m \in Matches(argv[i]) : TRUE
                     x == Explicit(argv[i])
                     v == IF x.given THEN x.v
                          ELSE IF i + 1 <= Len(argv) THEN argv[i + 1] ELSE << >>
                 IN  IF x.given /\ o.nargs = 0
                     THEN IF /\ Len(o.name) = 2 /\ x.v # << >>
                             /\ \A k \in 1..Len(x.v) : x.v[k] = "h"
                          THEN Exit(0) ELSE Exit(2)
                     ELSE IF o.type = "help" THEN Exit(0)
                     ELSE IF o.nargs = 0 THEN Consume(i + 1, dev, extras)
                     ELSE IF ~x.given /\ (i + 1 > Len(argv) \/ ~IsArgument(i + 1))
                     THEN Exit(2)
                     ELSE IF ~Converts(o, v) THEN Exit(2)
                     ELSE Consume(IF x.given THEN i + 1 ELSE i + 2,
                                  IF o.type = "device"
                                  THEN CHOOSE d \in DeviceChoices : Chars(d) = v
                                  ELSE dev,
                                  extras)
    IN  IF Ambiguous THEN Exit(2) ELSE Consume(1, "cpu", FALSE)

\* Lines 785-800: args.device, which main() hands to the wrapper.
ArgsDevice(argv) == ParseArgs(argv).device

\* Lines 90-105: MPS is patched out unless the raw device is mps or auto;
\* without torch the import fails and nothing is patched.
MpsPatchApplied(argv, torch_installed) ==
    RawDevice(argv) \notin {Chars("mps"), Chars("auto")}
       /\ torch_installed

\* torch.backends.mps.is_available() as library code and load() see it.
MpsIsAvailable == env.mps_hw /\ ~mps_patched

\* torch.cuda.is_available()
CudaIsAvailable == env.cuda_hw

-----------------------------------------------------------------------------
(* ACEStepWrapper._detect_model_type                                       *)

\* str.lower() on the characters the model paths use.
LowerChar(c) ==
    CASE c = "T" -> "t" [] c = "S" -> "s" [] c = "B" -> "b" [] c = "A" -> "a"
      [] c = "E" -> "e" [] c = "F" -> "f" [] c = "O" -> "o" [] c = "R" -> "r"
      [] c = "U" -> "u" [] OTHER -> c

Lower(s) == [i \in 1..Len(s) |-> LowerChar(s[i])]

\* Python's "keyword in path": substring search.
Contains(s, kw) ==
    \E i \in 1..(Len(s) - Len(kw) + 1) : SubSeq(s, i, i + Len(kw) - 1) = kw

\* _MODEL_TYPE_KEYWORDS in dict order (lines 137-141).
ModelTypeKeywords ==
    << [kw |-> <<"t","u","r","b","o">>, mtype |-> "turbo"],
       [kw |-> <<"s","f","t">>,         mtype |-> "sft"],
       [kw |-> <<"b","a","s","e">>,     mtype |-> "base"] >>

\* Lines 164-168: first keyword (in dict order) found in the lowered path.
DetectModelType(path) ==
    LET path_lower == Lower(path)
        hits == { k \in 1..Len(ModelTypeKeywords) :
                    Contains(path_lower, ModelTypeKeywords[k].kw) }
    IN  IF hits = {} THEN "base"
        ELSE ModelTypeKeywords[CHOOSE k \in hits : \A j \in hits : k <= j].mtype

\* Model directories given on the command line or to load().
ModelPaths ==
    { <<"c","k","p","t">>,
      <<"S","F","T","-","T","u","r","b","o">> }

-----------------------------------------------------------------------------
(* ACEStepWrapper.load                                                     *)

ErrNoTorch   == "PyTorch not installed. Run: pip install torch"
ErrNoPackage == "ace_step package not found. Install: pip install ace-step  Or: pip install diffusers"
ErrLoadFailed == "Model load failed: <exception>"

\* What the imports and the pipeline constructors do during one load attempt.
\* The except ImportError of line 231 covers the whole inner try (lines
\* 194-229): an ImportError raised by the acestep import, by the
\* constructor, by load_checkpoint or by .to leads on to the diffusers
\* branch; any other exception goes to line 258.
LoadOutcomes ==
    { "no_torch",                 \* import torch raises ImportError
      "ace_ok",                   \* acestep imports, pipeline loads and moves
      "ace_ctor_raises",          \* ACEStepPipeline(...) raises, not an
                                  \* ImportError
      "ace_checkpoint_raises",    \* load_checkpoint or .to raises, not an
                                  \* ImportError
      "ace_checkpoint_import_error",
                                  \* load_checkpoint or .to raises
                                  \* ImportError, then the diffusers import
                                  \* or from_pretrained raises
      "diffusers_ok",             \* ImportError in the acestep branch,
                                  \* diffusers loads and moves
      "diffusers_missing",        \* ImportError from the acestep import or
                                  \* constructor, then the diffusers import
                                  \* or from_pretrained raises
      "diffusers_to_raises" }     \* ImportError in the acestep branch,
                                  \* from_pretrained returns, pipeline.to
                                  \* raises

\* The outcomes possible in this environment.
PossibleLoadOutcomes ==
    IF env.torch THEN LoadOutcomes \ {"no_torch"} ELSE {"no_torch"}

\* The probe order exchanged: cuda before mps.
ResolveDevice_CudaFirst(requested) ==
    IF requested = "auto"
    THEN IF CudaIsAvailable THEN "cuda"
         ELSE IF MpsIsAvailable THEN "mps"
         ELSE "cpu"
    ELSE requested

\* Lines 184-191.
ResolveDevice(requested) ==
    IF requested = "auto"
    THEN IF MpsIsAvailable THEN "mps"
         ELSE IF CudaIsAvailable THEN "cuda"
         ELSE "cpu"
    ELSE requested

Pipeline(kind, ready) == [kind |-> kind, ready |-> ready]

\* self.model = None
NoModel == Pipeline("None", FALSE)

\* model_path = None (falsy at line 153)
NoPath == << >>

\* Lines 172-260: the wrapper fields after load(path), given what the
\* imports and constructors did.
LoadResult(path, outcome) ==
    LET target_device == ResolveDevice(requested_device)
        cur == [model |-> model, is_loaded |-> is_loaded, device |-> device,
                load_error |-> load_error,
                model_type |-> DetectModelType(path),
                target |-> IF outcome = "no_torch" THEN None ELSE target_device]
    IN  CASE outcome = "no_torch" ->
               [cur EXCEPT !.load_error = ErrNoTorch]
          [] outcome = "ace_ok" ->
               [cur EXCEPT !.model = Pipeline("acestep", TRUE),
                           !.device = target_device,
                           !.is_loaded = TRUE,
                           !.load_error = None]
          [] outcome = "ace_ctor_raises" ->
               [cur EXCEPT !.load_error = ErrLoadFailed]
          [] outcome = "ace_checkpoint_raises" ->
               [cur EXCEPT !.model = Pipeline("acestep", FALSE),
                           !.load_error = ErrLoadFailed]
          [] outcome = "ace_checkpoint_import_error" ->
               [cur EXCEPT !.model = Pipeline("acestep", FALSE),
                           !.load_error = ErrNoPackage]
          [] outcome = "diffusers_ok" ->
               [cur EXCEPT !.model = Pipeline("diffusers", TRUE),
                           !.device = target_device,
                           !.is_loaded = TRUE,
                           !.load_error = None]
          [] outcome = "diffusers_missing" ->
               [cur EXCEPT !.load_error = ErrNoPackage]
          [] outcome = "diffusers_to_raises" ->
               [cur EXCEPT !.model = Pipeline("diffusers", FALSE),
                           !.load_error = ErrNoPackage]

LoadSucceeds(outcome) == outcome \in {"ace_ok", "diffusers_ok"}

-----------------------------------------------------------------------------
(* ACEStepWrapper.infer                                                    *)

\* denoise_strength is carried in quarters: 3 stands for 0.75.
DenoiseDen == 4

\* Python's round(): to nearest, ties to even; the value is n / d.
RoundHalfEven(n, d) ==
    LET q == n \div d
        r == n % d
    IN  IF 2 * r < d THEN q
        ELSE IF 2 * r > d THEN q + 1
        ELSE IF q % 2 = 0 THEN q ELSE q + 1

\* Line 326: max(0.0, min(1.0, denoise_strength)), in quarters.
ClampDenoise(denoise) == Max(0, Min(DenoiseDen, denoise))

\* A Python int is [k, v]: "fin" with its value v; "huge", an integer of
\* 300 or 301 digits such as int(1e300), with its sign v; "bigint", an
\* integer beyond the range of a double such as 10 ** 400, with its sign v.

\* Line 329: max(1, int(round(num_steps * denoise_strength))) for a
\* denoise_strength in (0, 1] and a num_steps that a double can hold.
EffectiveSteps(num_steps, denoise) ==
    IF num_steps.k = "fin"
    THEN [k |-> "fin",
          v |-> Max(1, RoundHalfEven(num_steps.v * denoise, DenoiseDen))]
    ELSE IF num_steps.v > 0 THEN [k |-> "huge", v |-> 1]
    ELSE [k |-> "fin", v |-> 1]

\* Line 320 with "and" for "or".
NotLoaded_And(loaded, mdl) == ~loaded /\ mdl = NoModel

\* Line 320: the passthrough test.
NotLoaded(loaded, mdl) == ~loaded \/ mdl = NoModel

\* Line 327 with "<" for "<=".
DenoiseIsNoOp_Strict(denoise) == denoise < 0

\* Line 327: the denoise short-circuit, on the clamped value.
DenoiseIsNoOp(denoise) == denoise <= 0

\* What the helper library and the engine do during one infer call.
EngineOutcomes ==
    { "sf_missing",       \* import soundfile raises ImportError (line 332)
      "write_raises",     \* sf.write of the input raises (line 342)
      "engine_raises",    \* self.model(**kwargs) raises (line 378)
      "no_wav",           \* the result names no .wav path (lines 381-386)
      "wav_missing",      \* the named path does not exist (line 388)
      "read_raises",      \* sf.read of the output raises (line 389)
      "ok" }              \* an output WAV is read back

\* The engine is entered unless a step before line 378 raised.
EngineEntered(outcome) == outcome \notin {"sf_missing", "write_raises"}

SeqSum(s) == LET RECURSIVE Go(_) 
                 Go(i) == IF i > Len(s) THEN 0 ELSE s[i] + Go(i + 1)
             IN  Go(1)

\* Lines 391-392: a 2-D result is averaged over its channels. Sample values
\* are integers in units of 2^-10; the engine outputs used have frames whose
\* mean is a whole number of units.
FlattenToMono(audio_out) ==
    IF audio_out.ndim > 1
    THEN [i \in 1..Len(audio_out.data) |->
            SeqSum(audio_out.data[i]) \div Len(audio_out.data[i])]
    ELSE audio_out.data

Returned(obj, val) == [obj |-> obj, val |-> val]

\* The try block with the counter bumped as soon as the engine returns.
InferTry_CountEarly(audio_samples, outcome, audio_out, count) ==
    CASE outcome \in {"sf_missing", "write_raises", "engine_raises"} ->
           [kind |-> "raise", ret |-> Returned(None, << >>), count |-> count]
      [] outcome = "read_raises" ->
           [kind |-> "raise", ret |-> Returned(None, << >>), count |-> count + 1]
      [] outcome \in {"no_wav", "wav_missing"} ->
           [kind |-> "return", ret |-> Returned("audio_samples", audio_samples),
            count |-> count + 1]
      [] outcome = "ok" ->
           [kind |-> "return", ret |-> Returned("audio_out", FlattenToMono(audio_out)),
            count |-> count + 1]

\* Lines 332-398: the body of the try block. Either it returns, or an
\* exception leaves it.
InferTry(audio_samples, outcome, audio_out, count) ==
    CASE outcome \in {"sf_missing", "write_raises", "engine_raises", "read_raises"} ->
           [kind |-> "raise", ret |-> Returned(None, << >>), count |-> count]
      [] outcome \in {"no_wav", "wav_missing"} ->
           [kind |-> "return", ret |-> Returned("audio_samples", audio_samples),
            count |-> count]
      [] outcome = "ok" ->
           [kind |-> "return", ret |-> Returned("audio_out", FlattenToMono(audio_out)),
            count |-> count + 1]

\* The handler catching nothing: the exception leaves infer.
InferExcept_Propagate(r, audio_samples) == r

\* Lines 400-402: except Exception -> return audio_samples.
InferExcept(r, audio_samples) ==
    IF r.kind = "raise"
    THEN [kind |-> "return", ret |-> Returned("audio_samples", audio_samples),
          count |-> r.count]
    ELSE r

\* Lines 320-402: one call of infer on the current wrapper state. entered
\* tells whether self.model(...) was called; steps is the infer_step passed.
\* Line 329 stands before the try block: with a num_steps beyond the range
\* of a double its product raises OverflowError out of infer.
InferResult(audio_samples, denoise_strength, num_steps, outcome, audio_out) ==
    IF NotLoaded(is_loaded, model)
    THEN [kind |-> "return", ret |-> Returned("audio_samples", audio_samples),
          count |-> inference_count, entered |-> FALSE,
          steps |-> [k |-> "fin", v |-> 0]]
    ELSE LET ds == ClampDenoise(denoise_strength)
         IN  IF DenoiseIsNoOp(ds)
             THEN [kind |-> "return",
                   ret |-> Returned("audio_samples", audio_samples),
                   count |-> inference_count, entered |-> FALSE,
                   steps |-> [k |-> "fin", v |-> 0]]
             ELSE IF num_steps.k = "bigint"
             THEN [kind |-> "raise", ret |-> Returned(None, << >>),
                   count |-> inference_count, entered |-> FALSE,
                   steps |-> [k |-> "fin", v |-> 0]]
             ELSE LET r == InferExcept(
                             InferTry(audio_samples, outcome, audio_out,
                                      inference_count),
                             audio_samples)
                  IN  [kind |-> r.kind, ret |-> r.ret, count |-> r.count,
                       entered |-> EngineEntered(outcome),
                       steps |-> IF EngineEntered(outcome)
                                 THEN EffectiveSteps(num_steps, ds)
                                 ELSE [k |-> "fin", v |-> 0]]

-----------------------------------------------------------------------------
(* The wrapper used call after call: construction, load, infer.            *)

\* Sample values, in units of 2^-10.
SampleValues == {512}

RECURSIVE SeqsUpTo(_, _)
SeqsUpTo(S, n) ==
    IF n = 0 THEN { << >> }
    ELSE LET shorter == SeqsUpTo(S, n - 1)
         IN  shorter \cup { Append(q, x) : q \in { t \in shorter : Len(t) = n - 1 },
                                            x \in S }

\* Mono input buffers handed to infer.
AudioInputs == SeqsUpTo(SampleValues, MaxAudioLen)

\* Arrays the engine leaves in its output WAV: mono, and two-channel.
EngineAudio ==
    { [ndim |-> 1, data |-> <<768>>],
      [ndim |-> 2, data |-> << <<256, 768>> >>] }

\* denoise_strength values a caller passes, in quarters: -0.5, 0, 0.5, 1.5.
Denoises == {-2, 0, 2, 6}

\* num_steps values a caller passes.
NumSteps == { [k |-> "fin", v |-> 8] }

\* Every start of the server: command line, installed torch, accelerators.
\* Without torch no accelerator is ever probed.
Environments ==
    { e \in [argv : Argvs, torch : BOOLEAN, mps_hw : BOOLEAN, cuda_hw : BOOLEAN] :
        ~e.torch => ~e.mps_hw /\ ~e.cuda_hw }

\* The starts used for the runs that exercise infer: the default command
\* line on a plain machine, --device auto on Apple Silicon, and no torch.
ServingEnvironments ==
    { [argv |-> << >>, torch |-> TRUE, mps_hw |-> FALSE, cuda_hw |-> FALSE],
      [argv |-> << Chars("--device"), Chars("auto") >>, torch |-> TRUE, mps_hw |-> TRUE,
       cuda_hw |-> FALSE],
      [argv |-> << >>, torch |-> FALSE, mps_hw |-> FALSE, cuda_hw |-> FALSE] }

NoAudio == [ndim |-> 1, data |-> << >>]

NoCall == [op |-> "none"]

\* The parts of the state the wrapper runs do not use.
IdleThreads == << >>
IdleCodec == [stage |-> "idle"]
IdleGen == [pc |-> "idle"]

\* Lines 143-153 run with device = args.device (line 798): the fields as
\* __init__ sets them, before its load.
InitWrapper(e, path) ==
    /\ env = e
    /\ mps_patched = MpsPatchApplied(e.argv, e.torch)
    /\ model = NoModel
    /\ model_path = path
    /\ is_loaded = FALSE
    /\ device = ArgsDevice(e.argv)
    /\ requested_device = ArgsDevice(e.argv)
    /\ load_error = None
    /\ inference_count = 0
    /\ model_type = "unknown"
    /\ engine_calls = 0
    /\ engine_returns = 0
    /\ call = NoCall
    /\ phase = IF path = NoPath THEN "ready" ELSE "ctor"

Init ==
    /\ \E e \in ServingEnvironments, path \in ModelPaths \cup {NoPath} :
          InitWrapper(e, path)
    /\ th = IdleThreads
    /\ tmp_input = None
    /\ codec = IdleCodec
    /\ gen = IdleGen

InitLoad ==
    /\ \E e \in Environments, path \in ModelPaths \cup {NoPath} :
          InitWrapper(e, path)
    /\ th = IdleThreads
    /\ tmp_input = None
    /\ codec = IdleCodec
    /\ gen = IdleGen

\* self.load(path): the assignments of lines 172-260.
ApplyLoad(path, outcome) ==
    LET r == LoadResult(path, outcome)
    IN  /\ model' = r.model
        /\ is_loaded' = r.is_loaded
        /\ device' = r.device
        /\ load_error' = r.load_error
        /\ model_type' = r.model_type
        /\ call' = [op |-> "load", outcome |-> outcome, target |-> r.target,
                    ok |-> LoadSucceeds(outcome),
                    was_loaded |-> is_loaded,
                    count_before |-> inference_count]
        /\ UNCHANGED << model_path, requested_device, inference_count, gen >>

\* Line 154: the load made by __init__ when a model path was given.
CtorLoad ==
    /\ phase = "ctor"
    /\ \E outcome \in PossibleLoadOutcomes : ApplyLoad(model_path, outcome)
    /\ phase' = "ready"
    /\ UNCHANGED << env, mps_patched, engine_calls, engine_returns, th,
                    tmp_input, codec, gen >>

\* A later call of load() on the constructed wrapper, made while no infer
\* call is running.
Reload ==
    /\ phase = "ready"
    /\ th = IdleThreads
    /\ \E path \in ModelPaths, outcome \in PossibleLoadOutcomes :
          ApplyLoad(path, outcome)
    /\ UNCHANGED << phase, env, mps_patched, engine_calls, engine_returns, th,
                    tmp_input, codec, gen >>

\* Line 320 and line 327 let the call go on to the engine.
ReachesEngine(denoise) ==
    ~NotLoaded(is_loaded, model) /\ ~DenoiseIsNoOp(ClampDenoise(denoise))

\* Outcomes that leave the try block before the engine is called, and
\* outcomes of a call that went into the engine.
BeforeEngine == { o \in EngineOutcomes : ~EngineEntered(o) }
InsideEngine == { o \in EngineOutcomes : EngineEntered(o) }

\* The record of a finished infer call: what it was given, what it found
\* and what it returned.
InferRecord(c, outcome, r) ==
    [op |-> "infer",
     audio_samples |-> c.audio_samples,
     denoise |-> c.denoise,
     was_loaded |-> c.was_loaded,
     had_model |-> c.had_model,
     outcome |-> outcome,
     ret |-> r.ret,
     raised |-> r.kind = "raise",
     entered |-> r.entered,
     count_before |-> c.count_before]

\* infer() is called, lines 320-378. The call returns the input at line
\* 321 or 328, or because import soundfile or sf.write raises; or it
\* writes its input to <tmp>/nr_bridge_input.wav (line 342) and goes into
\* self.model(...), where it stays until InferReturn. The wrapper has one
\* caller here, who makes its calls one after another.
InferCall ==
    /\ phase = "ready"
    /\ th = IdleThreads
    /\ \E audio_samples \in AudioInputs, denoise \in Denoises, num_steps \in NumSteps :
       \E c \in { [pc |-> "in_engine", audio_samples |-> audio_samples,
                   denoise |-> denoise, num_steps |-> num_steps,
                   was_loaded |-> is_loaded, had_model |-> model,
                   count_before |-> inference_count] } :
          \/ /\ ~ReachesEngine(denoise)
             /\ call' = InferRecord(c, None,
                           InferResult(audio_samples, denoise, num_steps, None,
                                       NoAudio))
             /\ UNCHANGED << th, tmp_input, engine_calls >>
          \/ /\ ReachesEngine(denoise)
             /\ \E outcome \in BeforeEngine :
                   call' = InferRecord(c, outcome,
                              InferResult(audio_samples, denoise, num_steps,
                                          outcome, NoAudio))
             /\ UNCHANGED << th, tmp_input, engine_calls >>
          \/ /\ ReachesEngine(denoise)
             /\ engine_calls < MaxEngineCalls
             /\ tmp_input' = [owner |-> 0, data |-> audio_samples]
             /\ engine_calls' = engine_calls + 1
             /\ th' = << c >>
             /\ UNCHANGED call
    /\ UNCHANGED << model, model_path, is_loaded, device, requested_device,
                    load_error, model_type, inference_count, env, mps_patched,
                    engine_returns, codec, gen, phase >>

\* self.model(...) comes back, lines 378-402: it raised, or its result
\* holds no readable WAV, or the output is read, inference_count is read
\* and stored (line 394) and the engine's audio returned.
InferReturn ==
    /\ th # IdleThreads
    /\ th[1].pc = "in_engine"
    /\ \E outcome \in InsideEngine :
       \E audio_out \in IF outcome = "ok" THEN EngineAudio ELSE {NoAudio} :
       \E r \in { InferResult(th[1].audio_samples, th[1].denoise,
                              th[1].num_steps, outcome, audio_out) } :
          /\ inference_count' = r.count
          /\ engine_returns' =
                engine_returns + (IF r.ret.obj = "audio_out" THEN 1 ELSE 0)
          /\ call' = InferRecord(th[1], outcome, r)
    /\ th' = IdleThreads
    /\ UNCHANGED << model, model_path, is_loaded, device, requested_device,
                    load_error, model_type, env, mps_patched, engine_calls,
                    tmp_input, codec, gen, phase >>

Next == CtorLoad \/ Reload \/ InferCall \/ InferReturn

Spec == Init /\ [][Next]_vars

\* Load attempts alone, over every start of the server.
NextLoad == CtorLoad \/ Reload

SpecLoad == InitLoad /\ [][NextLoad]_vars

-----------------------------------------------------------------------------
(* The server: main() builds the wrapper, then waitress serves /infer on   *)
(* worker threads that share it (lines 798-840).                           *)

Requests == 1..NumRequests

\* The audio request t carries, already decoded (line 656).
RequestAudio(t) == << 256 * t >>

IdleRequest ==
    [pc |-> "idle", ret |-> None, count_read |-> 0, ref_read |-> None,
     model_used |-> FALSE]

\* Starts used for the server runs: the default command line with torch
\* installed, and without.
ServerEnvironments ==
    { e \in ServingEnvironments : e.argv = << >> }

ServerPaths == { NoPath, <<"c","k","p","t">> }

InitServer ==
    /\ \E e \in ServerEnvironments, path \in ServerPaths : InitWrapper(e, path)
    /\ th = [t \in Requests |-> IdleRequest]
    /\ tmp_input = None
    /\ codec = IdleCodec
    /\ gen = IdleGen

Goto(t, pc) == [th EXCEPT ![t].pc = pc]

\* A worker picks up request t before main() has finished constructing the
\* wrapper.
ReqBegin_BeforeReady(t) ==
    /\ th[t].pc = "idle"
    /\ \E denoise \in {0, DenoiseDen} :
          th' = IF ReachesEngine(denoise)
                THEN Goto(t, "write_input")
                ELSE [th EXCEPT ![t].pc = "respond", ![t].ret = "audio_samples"]
    /\ UNCHANGED << wrapperVars, env, mps_patched, engine_calls, engine_returns,
                    call, tmp_input, codec, gen, phase >>

\* A worker picks up request t and runs infer() up to its first effect:
\* lines 320-329 return the input, or the call goes on to the try block.
\* serve() is reached only after the constructor returned (line 840).
ReqBegin(t) ==
    /\ phase = "ready"
    /\ th[t].pc = "idle"
    /\ \E denoise \in {0, DenoiseDen} :
          th' = IF ReachesEngine(denoise)
                THEN Goto(t, "write_input")
                ELSE [th EXCEPT ![t].pc = "respond", ![t].ret = "audio_samples"]
    /\ UNCHANGED << wrapperVars, env, mps_patched, engine_calls, engine_returns,
                    call, tmp_input, codec, gen, phase >>

\* Lines 332-342: with soundfile present the input is written to the one
\* file <tmp>/nr_bridge_input.wav; a missing soundfile or a failed write
\* goes to the handler at line 400.
ReqWriteInput(t) ==
    /\ th[t].pc = "write_input"
    /\ \/ /\ tmp_input' = [owner |-> t, data |-> RequestAudio(t)]
          /\ th' = Goto(t, "call_engine")
       \/ /\ th' = [th EXCEPT ![t].pc = "respond", ![t].ret = "audio_samples"]
          /\ UNCHANGED tmp_input
    /\ UNCHANGED << wrapperVars, env, mps_patched, engine_calls, engine_returns,
                    call, codec, gen, phase >>

\* Line 378: the call into the engine begins. Nothing in infer() or in the
\* server makes a thread wait here.
ReqEngineEnter(t) ==
    /\ th[t].pc = "call_engine"
    /\ engine_calls' = engine_calls + 1
    /\ th' = Goto(t, "in_engine")
    /\ UNCHANGED << wrapperVars, env, mps_patched, engine_returns, call,
                    tmp_input, codec, gen, phase >>

\* Inside the engine: it opens ref_audio_input (line 364) and reads what the
\* file holds at that moment.
ReqEngineReadsRef(t) ==
    /\ th[t].pc = "in_engine"
    /\ th' = [th EXCEPT ![t].pc = "engine_running", ![t].ref_read = tmp_input.owner]
    /\ UNCHANGED << wrapperVars, env, mps_patched, engine_calls, engine_returns,
                    call, tmp_input, codec, gen, phase >>

\* An engine call that, when it fails, marks the wrapper as unloaded and
\* records the failure.
ReqEngineExit_MarksError(t) ==
    /\ th[t].pc = "engine_running"
    /\ \E outcome \in EngineOutcomes :
          /\ EngineEntered(outcome)
          /\ th' = IF outcome = "ok"
                   THEN Goto(t, "load_count")
                   ELSE [th EXCEPT ![t].pc = "respond", ![t].ret = "audio_samples"]
          /\ is_loaded' = (outcome = "ok")
          /\ load_error' = IF outcome = "ok" THEN load_error ELSE "inference error"
    /\ UNCHANGED << model, model_path, device, requested_device, model_type,
                    inference_count, env, mps_patched, engine_calls,
                    engine_returns, call, tmp_input, codec, gen, phase >>

\* Lines 378-398: the engine call ends. It raises, or its result holds no
\* readable WAV (the input is returned), or the output is read back and the
\* call goes on to line 394.
ReqEngineExit(t) ==
    /\ th[t].pc = "engine_running"
    /\ \E outcome \in EngineOutcomes :
          /\ EngineEntered(outcome)
          /\ th' = IF outcome = "ok"
                   THEN Goto(t, "load_count")
                   ELSE [th EXCEPT ![t].pc = "respond", ![t].ret = "audio_samples"]
    /\ UNCHANGED << wrapperVars, env, mps_patched, engine_calls, engine_returns,
                    call, tmp_input, codec, gen, phase >>

\* Line 394, first half: self.inference_count is read.
ReqLoadCount(t) ==
    /\ th[t].pc = "load_count"
    /\ th' = [th EXCEPT ![t].pc = "store_count", ![t].count_read = inference_count]
    /\ UNCHANGED << wrapperVars, env, mps_patched, engine_calls, engine_returns,
                    call, tmp_input, codec, gen, phase >>

\* Line 394, second half, and line 395: the sum is stored and the engine's
\* audio returned.
ReqStoreCount(t) ==
    /\ th[t].pc = "store_count"
    /\ inference_count' = th[t].count_read + 1
    /\ engine_returns' = engine_returns + 1
    /\ th' = [th EXCEPT ![t].pc = "respond", ![t].ret = "audio_out"]
    /\ UNCHANGED << model, model_path, is_loaded, device, requested_device,
                    load_error, model_type, env, mps_patched, engine_calls,
                    call, tmp_input, codec, gen, phase >>

\* Lines 733-743: the response is built; model_used is is_loaded as read now.
ReqRespond(t) ==
    /\ th[t].pc = "respond"
    /\ th' = [th EXCEPT ![t].pc = "done", ![t].model_used = is_loaded]
    /\ UNCHANGED << wrapperVars, env, mps_patched, engine_calls, engine_returns,
                    call, tmp_input, codec, gen, phase >>

\* GET /health or GET /status (lines 544-580): request t is answered with
\* the wrapper's fields as they are now; model_loaded is is_loaded. Like
\* every route it is served only once serve() runs (line 840).
ReqStatus(t) ==
    /\ phase = "ready"
    /\ th[t].pc = "idle"
    /\ th' = [th EXCEPT ![t].pc = "done", ![t].ret = "status",
                        ![t].model_used = is_loaded]
    /\ UNCHANGED << wrapperVars, env, mps_patched, engine_calls, engine_returns,
                    call, tmp_input, codec, gen, phase >>

NextServer ==
    \/ CtorLoad
    \/ \E t \in Requests :
          \/ ReqBegin(t)
          \/ ReqStatus(t)
          \/ ReqWriteInput(t)
          \/ ReqEngineEnter(t)
          \/ ReqEngineReadsRef(t)
          \/ ReqEngineExit(t)
          \/ ReqLoadCount(t)
          \/ ReqStoreCount(t)
          \/ ReqRespond(t)

SpecServer == InitServer /\ [][NextServer]_vars

\* Requests between engine entry (line 378 called) and engine exit.
InEngine == { t \in Requests : th[t].pc \in {"in_engine", "engine_running"} }

-----------------------------------------------------------------------------
(* The manual WAV codec (lines 423-492 and 511-535): the path taken when   *)
(* soundfile is not installed. Bytes are numbers 0..255. A 32-bit header   *)
(* field is kept as two 16-bit halves, [hi, lo], so that a Python int too  *)
(* large for its slot can be told from one that fits.                      *)

Wide(hi, lo) == [hi |-> hi, lo |-> lo]

\* A small Python int as a wide number.
ToWide(n) == Wide(n \div 65536, n % 65536)

\* Python's w * 4 (line 515: sample_rate * num_channels * (32 // 8)).
WideTimes4(w) == Wide(4 * w.hi + (4 * w.lo) \div 65536, (4 * w.lo) % 65536)

\* struct.pack('<I', w) raises struct.error unless 0 <= w < 2^32.
FitsU32(w) == w.hi >= 0 /\ w.hi < 65536

\* struct.pack('<I', w): four bytes, least significant first.
PackU32(w) == << w.lo % 256, w.lo \div 256, w.hi % 256, w.hi \div 256 >>

\* struct.pack('<H', n)
PackU16(n) == << n % 256, n \div 256 >>

\* struct.unpack('<I', b)
UnpackU32(b) == Wide(b[3] + 256 * b[4], b[1] + 256 * b[2])

\* struct.unpack('<H', b)
UnpackU16(b) == b[1] + 256 * b[2]

\* b'RIFF', b'WAVE', b'fmt ', b'data'
TagRIFF == << 82, 73, 70, 70 >>
TagWAVE == << 87, 65, 86, 69 >>
TagFmt  == << 102, 109, 116, 32 >>
TagData == << 100, 97, 116, 97 >>

\* A float32 is its IEEE-754 fields: sign, biased exponent, 23-bit fraction.
F32(sgn, ex, frac) == [s |-> sgn, e |-> ex, m |-> frac]

\* numpy's tobytes() of one float32, little-endian.
F32Bytes(x) ==
    << x.m % 256,
       (x.m \div 256) % 256,
       (x.m \div 65536) + 128 * (x.e % 2),
       (x.e \div 2) + 128 * x.s >>

\* np.frombuffer(..., dtype=float32) of four bytes.
BytesF32(b) ==
    F32(b[4] \div 128,
        2 * (b[4] % 128) + b[3] \div 128,
        b[1] + 256 * b[2] + 65536 * (b[3] % 128))

RECURSIVE Flatten(_)
Flatten(ss) == IF ss = << >> THEN << >> ELSE Head(ss) \o Flatten(Tail(ss))

\* Line 512: samples.astype(np.float32).tobytes() of a float32 buffer.
SamplesToBytes(samples) == Flatten([i \in 1..Len(samples) |-> F32Bytes(samples[i])])

RECURSIVE Log2Floor(_)
Log2Floor(a) == IF a <= 1 THEN 0 ELSE 1 + Log2Floor(a \div 2)

RECURSIVE Pow2(_)
Pow2(k) == IF k = 0 THEN 1 ELSE 2 * Pow2(k - 1)

\* The float32 equal to v / 2^shift, for an integer v of at most 24 bits
\* (lines 470-473: int16 / 32768.0; line 481: int24 / 8388608.0). The
\* quotient is exact in float32.
IntToF32(v, shift) ==
    IF v = 0 THEN F32(0, 0, 0)
    ELSE LET a == IF v < 0 THEN -v ELSE v
             k == Log2Floor(a)
         IN  F32(IF v < 0 THEN 1 ELSE 0, 127 + k - shift,
                 (a - Pow2(k)) * Pow2(23 - k))

\* A little-endian two's-complement integer of n bytes.
SignedLE(b, n) ==
    LET RECURSIVE U(_)
        U(i) == IF i > n THEN 0 ELSE b[i] + 256 * U(i + 1)
        u == U(1)
    IN  IF u >= Pow2(8 * n - 1) THEN u - Pow2(8 * n) ELSE u

\* Python's b[lo:hi] with 0-based bounds, clipped to the buffer.
Slice(b, lo, hi) == SubSeq(b, Min(lo, Len(b)) + 1, Min(hi, Len(b)))

\* The encoder with the whole file length (44 + data) in the RIFF size field.
EncodeWav_RiffTotal(samples, sample_rate) ==
    LET data == SamplesToBytes(samples)
        byte_rate == WideTimes4(sample_rate)
    IN  IF ~FitsU32(sample_rate) \/ ~FitsU32(byte_rate)
        THEN [ok |-> FALSE, err |-> "struct.error", bytes |-> << >>]
        ELSE [ok |-> TRUE, err |-> None,
              bytes |-> TagRIFF \o PackU32(ToWide(44 + Len(data))) \o TagWAVE
                        \o TagFmt \o PackU32(ToWide(16)) \o PackU16(3)
                        \o PackU16(1) \o PackU32(sample_rate)
                        \o PackU32(byte_rate) \o PackU16(4) \o PackU16(32)
                        \o TagData \o PackU32(ToWide(Len(data))) \o data]

\* Lines 513-535: the manual encoder. struct.pack raises when a field does
\* not fit its slot.
EncodeWav(samples, sample_rate) ==
    LET data == SamplesToBytes(samples)
        num_channels == 1
        bits_per_sample == 32
        byte_rate == WideTimes4(sample_rate)
        block_align == num_channels * (bits_per_sample \div 8)
    IN  IF ~FitsU32(sample_rate) \/ ~FitsU32(byte_rate)
        THEN [ok |-> FALSE, err |-> "struct.error", bytes |-> << >>]
        ELSE [ok |-> TRUE, err |-> None,
              bytes |-> TagRIFF \o PackU32(ToWide(36 + Len(data))) \o TagWAVE
                        \o TagFmt \o PackU32(ToWide(16)) \o PackU16(3)
                        \o PackU16(num_channels) \o PackU32(sample_rate)
                        \o PackU32(byte_rate) \o PackU16(block_align)
                        \o PackU16(bits_per_sample)
                        \o TagData \o PackU32(ToWide(Len(data))) \o data]

\* Lines 434-440: the parser's locals before the chunk walk.
WalkStart ==
    [pos |-> 12, fmt_found |-> FALSE, data_bytes |-> << >>, stop |-> FALSE,
     err |-> None, channels |-> 1, sample_rate |-> ToWide(48000),
     bits_per_sample |-> 16, audio_format |-> 1]

\* pos + chunk_size, as far as the loop test and the slices can tell it
\* apart from the end of the buffer.
Advance(pos, size, len) ==
    IF size.hi > 0 \/ pos + size.lo > len THEN len ELSE pos + size.lo

\* Lines 442-459: one pass of the loop body at w.pos.
WalkStep(wav_bytes, w) ==
    LET chunk_id == Slice(wav_bytes, w.pos, w.pos + 4)
        chunk_size == UnpackU32(Slice(wav_bytes, w.pos + 4, w.pos + 8))
        pos == w.pos + 8
    IN  IF chunk_id = TagFmt
        THEN IF Len(wav_bytes) - pos < 16
             THEN [w EXCEPT !.stop = TRUE, !.err = "struct.error"]
             ELSE [w EXCEPT
                     !.audio_format = UnpackU16(Slice(wav_bytes, pos, pos + 2)),
                     !.channels = UnpackU16(Slice(wav_bytes, pos + 2, pos + 4)),
                     !.sample_rate = UnpackU32(Slice(wav_bytes, pos + 4, pos + 8)),
                     !.bits_per_sample = UnpackU16(Slice(wav_bytes, pos + 14, pos + 16)),
                     !.fmt_found = TRUE,
                     !.pos = Advance(pos, chunk_size, Len(wav_bytes))]
        ELSE IF chunk_id = TagData
        THEN [w EXCEPT
                !.data_bytes = Slice(wav_bytes, pos,
                                     Advance(pos, chunk_size, Len(wav_bytes))),
                !.stop = TRUE]
        ELSE [w EXCEPT !.pos = Advance(pos, chunk_size, Len(wav_bytes))]

\* Line 442: while pos < len(wav_bytes) - 8, until the break at line 457.
RECURSIVE Walk(_, _)
Walk(wav_bytes, w) ==
    IF w.stop \/ ~(w.pos < Len(wav_bytes) - 8) THEN w
    ELSE Walk(wav_bytes, WalkStep(wav_bytes, w))

\* Lines 465-486: the sample data by (format, bits).
DecodeSamples(audio_format, bits_per_sample, data_bytes) ==
    LET n == Len(data_bytes)
    IN  IF audio_format = 3 /\ bits_per_sample = 32
        THEN IF n % 4 # 0
             THEN [ok |-> FALSE, err |-> "ValueError: buffer size", samples |-> << >>]
             ELSE [ok |-> TRUE, err |-> None,
                   samples |-> [i \in 1..(n \div 4) |->
                                  BytesF32(SubSeq(data_bytes, 4 * i - 3, 4 * i))]]
        ELSE IF audio_format = 1 /\ bits_per_sample = 16
        THEN IF n % 2 # 0
             THEN [ok |-> FALSE, err |-> "ValueError: buffer size", samples |-> << >>]
             ELSE [ok |-> TRUE, err |-> None,
                   samples |-> [i \in 1..(n \div 2) |->
                                  IntToF32(SignedLE(SubSeq(data_bytes, 2 * i - 1, 2 * i), 2), 15)]]
        ELSE IF audio_format = 1 /\ bits_per_sample = 24
        THEN [ok |-> TRUE, err |-> None,
              samples |-> [i \in 1..(n \div 3) |->
                             IntToF32(SignedLE(SubSeq(data_bytes, 3 * i - 2, 3 * i), 3), 23)]]
        ELSE [ok |-> FALSE, err |-> "Unsupported WAV format", samples |-> << >>]

\* The float32 mean of one frame (line 490). It is exact, and computed
\* here, for a frame of two equal values; other frames are outside what the
\* model computes and yield Inexact.
Inexact == [s |-> 0, e |-> -1, m |-> 0]
MeanF32(frame) ==
    IF Len(frame) = 2 /\ frame[1] = frame[2] /\ frame[1].e < 254
    THEN frame[1] ELSE Inexact

\* Lines 489-490: samples.reshape(-1, channels).mean(axis=1).
MixToMono(samples, channels) ==
    IF channels > 1
    THEN IF Len(samples) % channels # 0
         THEN [ok |-> FALSE, err |-> "ValueError: cannot reshape", samples |-> << >>]
         ELSE [ok |-> TRUE, err |-> None,
               samples |-> [i \in 1..(Len(samples) \div channels) |->
                              MeanF32(SubSeq(samples, channels * (i - 1) + 1,
                                             channels * i))]]
    ELSE [ok |-> TRUE, err |-> None, samples |-> samples]

DecodeError(err) ==
    [ok |-> FALSE, err |-> err, samples |-> << >>, sample_rate |-> ToWide(0)]

\* Lines 433-492: the chunk walk and what follows it.
DecodeChunks(wav_bytes) ==
    LET w == Walk(wav_bytes, WalkStart)
    IN  IF w.err # None THEN DecodeError(w.err)
        ELSE IF ~w.fmt_found \/ w.data_bytes = << >>
        THEN DecodeError("Missing fmt or data chunk in WAV")
        ELSE LET d == DecodeSamples(w.audio_format, w.bits_per_sample,
                                    w.data_bytes)
             IN  IF ~d.ok THEN DecodeError(d.err)
                 ELSE LET mono == MixToMono(d.samples, w.channels)
                      IN  IF ~mono.ok THEN DecodeError(mono.err)
                          ELSE [ok |-> TRUE, err |-> None,
                                samples |-> mono.samples,
                                sample_rate |-> w.sample_rate]

\* The magic test of line 430 moved in front of the length test of line 424.
DecodeManual_MagicFirst(wav_bytes) ==
    IF Slice(wav_bytes, 0, 4) # TagRIFF \/ Slice(wav_bytes, 8, 12) # TagWAVE
    THEN DecodeError("Not a valid WAV file")
    ELSE IF Len(wav_bytes) < 44 THEN DecodeError("WAV data too short")
    ELSE DecodeChunks(wav_bytes)

\* Lines 423-492: the manual parser, reached when soundfile cannot be
\* imported.
DecodeManual(wav_bytes) ==
    IF Len(wav_bytes) < 44 THEN DecodeError("WAV data too short")
    ELSE IF Slice(wav_bytes, 0, 4) # TagRIFF \/ Slice(wav_bytes, 8, 12) # TagWAVE
    THEN DecodeError("Not a valid WAV file")
    ELSE DecodeChunks(wav_bytes)

\* Line 416: sf.read(io.BytesIO(wav_bytes), dtype='float32'). soundfile
\* hands the bytes to libsndfile, which tells the container by its first
\* twelve bytes and decodes every sample format it knows, not only the
\* three of the manual parser. Computed here:
\*   - fewer than 12 bytes, or bytes that begin with no container magic:
\*     soundfile raises LibsndfileError, which line 420 does not catch;
\*   - a RIFF/WAVE file made of a 16-byte fmt chunk and a data chunk that
\*     fills the rest of the file, 1 or 2 channels, block align equal to
\*     the frame size: IEEE float 32 as it is, PCM 16 over 2^15, PCM 24
\*     over 2^23, PCM 32 rounded to float32 over 2^31, unsigned PCM 8 less
\*     128 over 2^7;
\*   - an AU file ('.snd', big-endian header of 24 bytes) of encoding 6,
\*     32-bit float.
\* The samples come back interleaved with the channel count, as the rows
\* of the array sf.read returns.
SfRead(wav_bytes) ==
    LET n == Len(wav_bytes)
        At(lo, hi) == Slice(wav_bytes, lo, hi)
        Rev(b) == << b[4], b[3], b[2], b[1] >>
        \* b'.snd', the magic of a Sun/NeXT AU file
        TagSnd == << 46, 115, 110, 100 >>
        \* A file that is outside what is computed here.
        NotModelled ==
            [ok |-> FALSE, err |-> "not modelled", samples |-> << >>,
             channels |-> 0, samplerate |-> ToWide(0)]
        Raise == [ok |-> FALSE,
                  err |-> "Error opening <_io.BytesIO>: Format not recognised.",
                  samples |-> << >>, channels |-> 0, samplerate |-> ToWide(0)]
        Read(channels, samplerate, width, Sample(_), data) ==
            [ok |-> TRUE, err |-> None, channels |-> channels,
             samplerate |-> samplerate,
             samples |-> [i \in 1..(Len(data) \div width) |->
                            Sample(SubSeq(data, width * (i - 1) + 1, width * i))]]
        \* (float) of a 32-bit integer, times 2^-31
        Int32(b) ==
            LET hi == b[3] + 256 * b[4]
                lo == b[1] + 256 * b[2]
                neg == hi >= 32768
                a == IF neg THEN (65535 - hi) * 65536 + (65536 - lo)
                     ELSE hi * 65536 + lo
                k == Log2Floor(a)
                drop == k - 23
                q == a \div Pow2(drop)
                r == a % Pow2(drop)
                up == \/ 2 * r > Pow2(drop)
                      \/ 2 * r = Pow2(drop) /\ q % 2 = 1
                q2 == IF up THEN q + 1 ELSE q
            IN  IF hi = 32768 /\ lo = 0 THEN F32(1, 127, 0)
                ELSE IF a = 0 THEN F32(0, 0, 0)
                ELSE IF k <= 23
                THEN F32(IF neg THEN 1 ELSE 0, 96 + k, (a - Pow2(k)) * Pow2(23 - k))
                ELSE IF q2 = Pow2(24) THEN F32(IF neg THEN 1 ELSE 0, 97 + k, 0)
                ELSE F32(IF neg THEN 1 ELSE 0, 96 + k, q2 - Pow2(23))
        Wav ==
            LET audio_format == UnpackU16(At(20, 22))
                channels == UnpackU16(At(22, 24))
                samplerate == UnpackU32(At(24, 28))
                block_align == UnpackU16(At(32, 34))
                bits == UnpackU16(At(34, 36))
                data == At(44, n)
                plain == /\ n >= 44
                         /\ At(12, 16) = TagFmt
                         /\ UnpackU32(At(16, 20)) = ToWide(16)
                         /\ At(36, 40) = TagData
                         /\ UnpackU32(At(40, 44)) = ToWide(n - 44)
                         /\ channels \in {1, 2}
                         /\ samplerate.hi < 32768 /\ samplerate # ToWide(0)
                         /\ block_align * 8 = channels * bits
                         /\ Len(data) % block_align = 0
            IN  IF ~plain THEN NotModelled
                ELSE IF audio_format = 3 /\ bits = 32
                THEN Read(channels, samplerate, 4, BytesF32, data)
                ELSE IF audio_format = 1 /\ bits = 32
                THEN Read(channels, samplerate, 4, Int32, data)
                ELSE IF audio_format = 1 /\ bits = 24
                THEN Read(channels, samplerate, 3,
                          LAMBDA b : IntToF32(SignedLE(b, 3), 23), data)
                ELSE IF audio_format = 1 /\ bits = 16
                THEN Read(channels, samplerate, 2,
                          LAMBDA b : IntToF32(SignedLE(b, 2), 15), data)
                ELSE IF audio_format = 1 /\ bits = 8
                THEN Read(channels, samplerate, 1,
                          LAMBDA b : IntToF32(b[1] - 128, 7), data)
                ELSE NotModelled
        Au ==
            LET data_offset == UnpackU32(Rev(At(4, 8)))
                data_size == UnpackU32(Rev(At(8, 12)))
                encoding == UnpackU32(Rev(At(12, 16)))
                samplerate == UnpackU32(Rev(At(16, 20)))
                channels == UnpackU32(Rev(At(20, 24)))
                data == At(24, n)
                plain == /\ n >= 24
                         /\ data_offset = ToWide(24)
                         /\ data_size = ToWide(n - 24)
                         /\ encoding = ToWide(6)
                         /\ samplerate.hi < 32768 /\ samplerate # ToWide(0)
                         /\ channels \in {ToWide(1), ToWide(2)}
                         /\ Len(data) % (4 * channels.lo) = 0
            IN  IF ~plain THEN NotModelled
                ELSE Read(channels.lo, samplerate, 4,
                          LAMBDA b : BytesF32(Rev(b)), data)
    IN  IF n < 12 THEN Raise
        ELSE IF At(0, 4) = TagRIFF /\ At(8, 12) = TagWAVE THEN Wav
        ELSE IF At(0, 4) = TagSnd THEN Au
        ELSE IF At(0, 4) \in { TagRIFF, << 82, 73, 70, 88 >>, << 82, 70, 54, 52 >>,
                               << 70, 79, 82, 77 >>, << 102, 76, 97, 67 >>,
                               << 79, 103, 103, 83 >>, << 99, 97, 102, 102 >> }
        THEN NotModelled
        ELSE Raise

\* Lines 408-492: decode_wav_bytes. With soundfile installed (line 415
\* imports it) the result is what sf.read gives, mixed to mono when it has
\* more than one channel (lines 417-418), and an exception of sf.read other
\* than ImportError leaves the function; without it the manual parser runs.
DecodeWav(soundfile, wav_bytes) ==
    IF soundfile
    THEN LET r == SfRead(wav_bytes)
         IN  IF ~r.ok THEN DecodeError(r.err)
             ELSE [ok |-> TRUE, err |-> None,
                   samples |-> MixToMono(r.samples, r.channels).samples,
                   sample_rate |-> r.samplerate]
    ELSE DecodeManual(wav_bytes)

\* float32 values put through the codec: 0.0, 1.0, -0.5 and 0.42.
F32Values == { F32(0, 0, 0), F32(0, 127, 0), F32(1, 126, 0), F32(0, 125, 5704253) }

\* Sample rates put through the codec: 8000, 44100, 48000 and 96000 Hz, and
\* the two either side of the largest whose byte rate fits 32 bits,
\* 2^30 - 1 and 2^30.
SampleRates ==
    { ToWide(8000), ToWide(44100), ToWide(48000), ToWide(96000),
      Wide(16383, 65535), Wide(16384, 0) }

CodecBuffers == SeqsUpTo(F32Values, MaxCodecLen)

InitCodec ==
    /\ InitWrapper([argv |-> << >>, torch |-> TRUE, mps_hw |-> FALSE,
                    cuda_hw |-> FALSE], NoPath)
    /\ th = IdleThreads
    /\ tmp_input = None
    /\ \E samples \in CodecBuffers, sample_rate \in SampleRates :
          codec = [stage |-> "input", samples |-> samples,
                   sample_rate |-> sample_rate]
    /\ gen = IdleGen

\* encoded = encode_wav_bytes(samples, sample_rate)   (test_bridge.py 28)
CodecEncode ==
    /\ codec.stage = "input"
    /\ codec' = [stage |-> "encoded", samples |-> codec.samples,
                 sample_rate |-> codec.sample_rate,
                 encoded |-> EncodeWav(codec.samples, codec.sample_rate)]
    /\ UNCHANGED << wrapperVars, env, mps_patched, engine_calls, engine_returns,
                    call, th, tmp_input, phase, gen >>

\* decoded, sr = decode_wav_bytes(encoded)   (test_bridge.py 29)
CodecDecode ==
    /\ codec.stage = "encoded"
    /\ codec.encoded.ok
    /\ codec' = [stage |-> "decoded", samples |-> codec.samples,
                 sample_rate |-> codec.sample_rate,
                 encoded |-> codec.encoded,
                 decoded |-> DecodeWav(FALSE, codec.encoded.bytes)]
    /\ UNCHANGED << wrapperVars, env, mps_patched, engine_calls, engine_returns,
                    call, th, tmp_input, phase, gen >>

NextCodec == CodecEncode \/ CodecDecode

SpecCodec == InitCodec /\ [][NextCodec]_vars

-----------------------------------------------------------------------------
(* decode_wav_bytes on files it did not write (lines 408-492): containers *)
(* laid out chunk by chunk with every header field free, in a process      *)
(* without soundfile and in one with it.                                   *)

\* b'LIST'
TagLIST == << 76, 73, 83, 84 >>

\* One chunk of a layout.
\*   "fmt"          a fmt chunk with the 16-byte body line 448 unpacks as
\*                  '<HHIIHH'; the manual parser ignores byte rate and
\*                  block align
\*   "fmt_cut"      a fmt header followed by 4 of its 16 body bytes
\*   "data"         a data chunk declaring the size of its payload
\*   "data_empty"   a data chunk of declared size 0
\*   "LIST"         a chunk the decoder does not know, 16 bytes
\*   "LIST_odd"     the same with 15 bytes and no pad byte
\*   "LIST_big"     the same declaring 65536 bytes, more than the file holds
ChunkBytes(kind, d) ==
    LET zeros(n) == [i \in 1..n |-> 0]
    IN  CASE kind = "fmt" ->
               TagFmt \o PackU32(ToWide(16)) \o PackU16(d.audio_format)
                 \o PackU16(d.channels) \o PackU32(d.sample_rate)
                 \o PackU32(d.byte_rate) \o PackU16(d.block_align)
                 \o PackU16(d.bits_per_sample)
          [] kind = "fmt_cut" ->
               TagFmt \o PackU32(ToWide(16)) \o PackU16(d.audio_format)
                 \o PackU16(d.channels)
          [] kind = "data" ->
               TagData \o PackU32(ToWide(Len(d.payload))) \o d.payload
          [] kind = "data_empty" -> TagData \o PackU32(ToWide(0))
          [] kind = "LIST" -> TagLIST \o PackU32(ToWide(16)) \o zeros(16)
          [] kind = "LIST_odd" -> TagLIST \o PackU32(ToWide(15)) \o zeros(15)
          [] kind = "LIST_big" -> TagLIST \o PackU32(Wide(1, 0)) \o zeros(16)

\* The bytes of the file a description stands for.
\*   "wav"  the 12-byte container header, the chunks in order, cut to d.cut
\*          bytes when d.cut >= 0
\*   "au"   a Sun/NeXT AU file: '.snd', then big-endian data offset 24,
\*          data size, encoding 6 (32-bit float), sample rate and channel
\*          count, then the payload's float32 values big-endian
\*   "raw"  the payload and nothing else
WavBytes(d) ==
    LET body == Flatten([i \in 1..Len(d.layout) |-> ChunkBytes(d.layout[i], d)])
        whole == d.riff \o PackU32(ToWide(4 + Len(body))) \o d.wave \o body
        Rev(b) == << b[4], b[3], b[2], b[1] >>
        BE(n) == Rev(PackU32(n))
    IN  CASE d.kind = "raw" -> d.payload
          [] d.kind = "au" ->
               << 46, 115, 110, 100 >> \o BE(ToWide(24)) \o BE(ToWide(Len(d.payload)))
                 \o BE(ToWide(6)) \o BE(d.sample_rate) \o BE(ToWide(d.channels))
                 \o Flatten([i \in 1..(Len(d.payload) \div 4) |->
                               Rev(SubSeq(d.payload, 4 * i - 3, 4 * i))])
          [] OTHER -> IF d.cut >= 0 THEN Slice(whole, 0, d.cut) ELSE whole

\* Payloads: the float32 values 1.0, -0.5, 0.42 (12 bytes, a whole number of
\* 16-, 24- and 32-bit samples), and one stereo frame 1.0, 1.0.
FloatPayload ==
    SamplesToBytes(<< F32(0, 127, 0), F32(1, 126, 0), F32(0, 125, 5704253) >>)
StereoPayload == SamplesToBytes(<< F32(0, 127, 0), F32(0, 127, 0) >>)

\* A mono 48 kHz float32 file: fmt, then data.
BaseWav ==
    [kind |-> "wav", riff |-> TagRIFF, wave |-> TagWAVE,
     layout |-> <<"fmt", "data">>, audio_format |-> 3, channels |-> 1,
     sample_rate |-> ToWide(48000), byte_rate |-> ToWide(192000),
     block_align |-> 4, bits_per_sample |-> 32, payload |-> FloatPayload,
     cut |-> -1]

\* The files handed to the decoder in a process without soundfile: every
\* pairing of the format codes 1 (PCM), 2 (ADPCM), 3 (IEEE float), 6
\* (A-law), 65534 (extensible) with the widths 8..64, the data chunk
\* filled, empty, after an unknown chunk, and declared empty with an
\* unknown chunk behind it; the sample rates 0, 48000,
\* 2^30 - 1, 2^30 and 2^32 - 1; the chunk layouts; the magics 'RIFF'/'RIFX'
\* and 'WAVE'/'AVI ', whole and cut short; and channel counts 0, 1, 2.
WavInputs ==
    LET formats == {1, 2, 3, 6, 65534}
        bits == {8, 16, 24, 32, 64}
        rates == { ToWide(0), ToWide(48000), Wide(16383, 65535),
                   Wide(16384, 0), Wide(65535, 65535) }
        layouts ==
          { <<"fmt", "data">>, <<"data", "fmt">>, <<"LIST", "fmt", "data">>,
            <<"fmt", "LIST", "data">>, <<"fmt", "LIST">>,
            <<"LIST", "LIST", "LIST">>, <<"LIST", "fmt_cut">>,
            <<"LIST_big", "fmt", "data">>, <<"fmt", "data_empty", "LIST">>,
            <<"LIST_odd", "fmt", "data">> }
        magics ==
          { [BaseWav EXCEPT !.riff = a, !.wave = b] :
               a \in {TagRIFF, << 82, 73, 70, 88 >>},
               b \in {TagWAVE, << 65, 86, 73, 32 >>} }
    IN  { [BaseWav EXCEPT !.audio_format = f, !.bits_per_sample = b,
                          !.layout = l] :
             f \in formats, b \in bits,
             l \in { <<"fmt", "data">>, <<"LIST", "fmt", "data">>,
                     <<"fmt", "data_empty", "LIST">> } }
        \cup { [BaseWav EXCEPT !.audio_format = f, !.bits_per_sample = b,
                               !.payload = << >>] :
                  f \in formats, b \in bits }
        \cup { [BaseWav EXCEPT !.sample_rate = r] : r \in rates }
        \cup { [BaseWav EXCEPT !.layout = l] : l \in layouts }
        \cup magics
        \cup { [m EXCEPT !.cut = n] : m \in magics, n \in {0, 3, 11, 43, 44} }
        \cup { [BaseWav EXCEPT !.channels = c, !.payload = StereoPayload] :
                  c \in {0, 1, 2} }
        \cup { [BaseWav EXCEPT !.channels = 2] }

\* The files handed to the decoder in a process with soundfile: plain
\* mono files of IEEE float 32 and of PCM 32, 16 and 8 bits, and one stereo
\* frame; AU files of 1, 3 and 5 float32 samples, 28, 36 and 44 bytes long;
\* and bytes that are no sound file: none, b"short" and b"NOT_RIFF" with 40
\* zero bytes (test_bridge.py, lines 75 and 79).
SfInputs ==
    LET one == SamplesToBytes(<< F32(0, 127, 0) >>)
        five == FloatPayload \o StereoPayload
        text == << 78, 79, 84, 95, 82, 73, 70, 70 >> \o [i \in 1..40 |-> 0]
    IN  { BaseWav,
          [BaseWav EXCEPT !.audio_format = 1],
          [BaseWav EXCEPT !.audio_format = 1, !.bits_per_sample = 16,
                          !.block_align = 2, !.byte_rate = ToWide(96000)],
          [BaseWav EXCEPT !.audio_format = 1, !.bits_per_sample = 8,
                          !.block_align = 1, !.byte_rate = ToWide(48000)],
          [BaseWav EXCEPT !.channels = 2, !.payload = StereoPayload,
                          !.block_align = 8, !.byte_rate = ToWide(384000)] }
        \cup { [BaseWav EXCEPT !.kind = "au", !.payload = p] :
                  p \in { one, FloatPayload, five } }
        \cup { [BaseWav EXCEPT !.kind = "raw", !.payload = p] :
                  p \in { << >>, << 115, 104, 111, 114, 116 >>, text } }

InitDecode ==
    /\ InitWrapper([argv |-> << >>, torch |-> TRUE, mps_hw |-> FALSE,
                    cuda_hw |-> FALSE], NoPath)
    /\ th = IdleThreads
    /\ tmp_input = None
    /\ \E soundfile \in BOOLEAN :
         \E d \in IF soundfile THEN SfInputs ELSE WavInputs :
            codec = [stage |-> "wav_input", soundfile |-> soundfile,
                     input |-> d, bytes |-> WavBytes(d)]
    /\ gen = IdleGen

\* samples, sr = decode_wav_bytes(wav_bytes)
DecodeInput ==
    /\ codec.stage = "wav_input"
    /\ codec' = [stage |-> "wav_decoded", soundfile |-> codec.soundfile,
                 input |-> codec.input, bytes |-> codec.bytes,
                 decoded |-> DecodeWav(codec.soundfile, codec.bytes)]
    /\ UNCHANGED << wrapperVars, env, mps_patched, engine_calls, engine_returns,
                    call, th, tmp_input, phase, gen >>

NextDecode == DecodeInput

SpecDecode == InitDecode /\ [][NextDecode]_vars

-----------------------------------------------------------------------------
(* The /infer handler (lines 646-747): request JSON in, response out.      *)

\* Base64 text is a sequence of sextets 0..63, with 64 for the pad '='.
\* base64.b64encode (line 734).
RECURSIVE B64Encode(_)
B64Encode(b) ==
    IF Len(b) = 0 THEN << >>
    ELSE IF Len(b) = 1
    THEN << b[1] \div 4, (b[1] % 4) * 16, 64, 64 >>
    ELSE IF Len(b) = 2
    THEN << b[1] \div 4, (b[1] % 4) * 16 + b[2] \div 16, (b[2] % 16) * 4, 64 >>
    ELSE << b[1] \div 4, (b[1] % 4) * 16 + b[2] \div 16,
            (b[2] % 16) * 4 + b[3] \div 64, b[3] % 64 >>
         \o B64Encode(SubSeq(b, 4, Len(b)))

\* base64.b64decode (line 655) of the str the JSON carried, with validate
\* left False. 65 stands for an ASCII character outside the alphabet and
\* 66 for a character outside ASCII. The str is first encoded as ASCII,
\* which raises ValueError when a character is outside ASCII; then
\* binascii.a2b_base64 scans the text: a character outside the alphabet is
\* passed over; a pad counts only once two sextets of the group are in,
\* and the pad that completes a group ends the scan, whatever follows;
\* text that ends inside a group raises binascii.Error, whose text names
\* the number of data characters when one sextet is left over.
B64Decode(txt) ==
    LET Raise(err) == [ok |-> FALSE, bytes |-> << >>, err |-> err]
        Fail(n) ==
            IF n = 0 THEN Raise("Incorrect padding")
            ELSE Raise("Invalid base64-encoded string: number of data characters ("
                       \o ToString(n)
                       \o ") cannot be 1 more than a multiple of 4")
        \* One character of the scan; over is set by the pad that completes
        \* a group.
        Step(s, c) ==
            IF s.over \/ c = 65 THEN s
            ELSE IF c = 64
            THEN IF s.quad_pos >= 2 /\ s.quad_pos + s.pads + 1 >= 4
                 THEN [s EXCEPT !.over = TRUE]
                 ELSE IF s.quad_pos >= 2 THEN [s EXCEPT !.pads = s.pads + 1]
                 ELSE s
            ELSE IF s.quad_pos = 0
            THEN [s EXCEPT !.quad_pos = 1, !.leftchar = c, !.pads = 0]
            ELSE IF s.quad_pos = 1
            THEN [s EXCEPT !.quad_pos = 2, !.leftchar = c % 16, !.pads = 0,
                           !.out = Append(s.out, s.leftchar * 4 + c \div 16)]
            ELSE IF s.quad_pos = 2
            THEN [s EXCEPT !.quad_pos = 3, !.leftchar = c % 4, !.pads = 0,
                           !.out = Append(s.out, s.leftchar * 16 + c \div 4)]
            ELSE [s EXCEPT !.quad_pos = 0, !.leftchar = 0, !.pads = 0,
                           !.out = Append(s.out, s.leftchar * 64 + c)]
        \* The characters lo..hi in order, by halves: the state x after the
        \* first half is the one the second half starts from.
        RECURSIVE Scan(_, _, _)
        Scan(s, lo, hi) ==
            IF lo > hi THEN s
            ELSE IF lo = hi THEN Step(s, txt[lo])
            ELSE CHOOSE y \in { Scan(x, (lo + hi) \div 2 + 1, hi) :
                                  x \in { Scan(s, lo, (lo + hi) \div 2) } } : TRUE
        end == Scan([quad_pos |-> 0, leftchar |-> 0, pads |-> 0,
                     out |-> << >>, over |-> FALSE], 1, Len(txt))
    IN  IF \E i \in 1..Len(txt) : txt[i] = 66
        THEN Raise("string argument should contain only ASCII characters")
        ELSE IF end.over \/ end.quad_pos = 0
        THEN [ok |-> TRUE, err |-> None, bytes |-> end.out]
        ELSE IF end.quad_pos = 1 THEN Fail((Len(end.out) \div 3) * 4 + 1)
        ELSE Fail(0)

\* A value of the request JSON is [t, v]:
\*   "absent"  the key is not in the object
\*   "str"     a string that is not a number, such as "abc"
\*   "num"     a number, v in the unit of its field
\*   "huge"    a finite float beyond every bound used here: 1e300 (v = 1)
\*             or -1e300 (v = -1)
\*   "inf"     Infinity (v = 1) or -Infinity (v = -1)
\*   "nan"     NaN
\*   "bigint"  an integer literal beyond the range of a double, such as a 1
\*             followed by 400 zeros (v = 1) or its negative (v = -1)
\* A Python float is [k, v]: "fin" with v in the field's unit, "huge" with
\* its sign, or "nan".

\* float(data.get(key, default)) (lines 663-702).
PyFloat(j, default) ==
    CASE j.t = "absent" -> [ok |-> TRUE, err |-> None, x |-> [k |-> "fin", v |-> default]]
      [] j.t = "num" -> [ok |-> TRUE, err |-> None, x |-> [k |-> "fin", v |-> j.v]]
      [] j.t \in {"huge", "inf"} ->
           [ok |-> TRUE, err |-> None, x |-> [k |-> "huge", v |-> j.v]]
      [] j.t = "nan" -> [ok |-> TRUE, err |-> None, x |-> [k |-> "nan", v |-> 0]]
      [] j.t = "str" ->
           [ok |-> FALSE, err |-> "could not convert string to float: 'abc'",
            x |-> [k |-> "nan", v |-> 0]]
      [] j.t = "bigint" ->
           [ok |-> FALSE, err |-> "int too large to convert to float",
            x |-> [k |-> "nan", v |-> 0]]

\* a < b on Python floats: false whenever a NaN is compared.
FLess(a, b) ==
    CASE a.k = "nan" \/ b.k = "nan" -> FALSE
      [] a.k = "huge" /\ b.k = "huge" -> a.v < b.v
      [] a.k = "huge" -> a.v < 0
      [] b.k = "huge" -> b.v > 0
      [] OTHER -> a.v < b.v

\* Python's min(a, b) and max(a, b): the first argument unless the second
\* is strictly smaller (larger).
FMin(a, b) == IF FLess(b, a) THEN b ELSE a
FMax(a, b) == IF FLess(a, b) THEN b ELSE a

\* max(lo, min(hi, x)) with finite bounds, as lines 676, 684, 692, 702 nest
\* the calls.
FClamp(lo, hi, x) ==
    FMax([k |-> "fin", v |-> lo], FMin([k |-> "fin", v |-> hi], x))

\* mul * x + add for mul > 0: a huge or NaN operand gives the same back.
FAffine(x, mul, add) ==
    IF x.k = "fin" THEN [k |-> "fin", v |-> mul * x.v + add] ELSE x

\* shift is carried in tenths, entropy and granularity in hundredths,
\* guidance_interval in 900ths, omega_scale and guidance_interval_decay in
\* hundredths.
ShiftDen == 10
GuidanceDen == 900
UnitDen == 100

\* Lines 676-678: 0.1 + (shift_raw - 1.0) / 9.0 * 0.8, clamped to [0.1, 0.9].
\* In 900ths the sum is 90 + 8 * (shift_tenths - 10).
GuidanceInterval(shift_raw) ==
    FClamp(GuidanceDen \div 10, 9 * (GuidanceDen \div 10),
           FAffine(shift_raw, 8, (GuidanceDen \div 10) - 8 * ShiftDen))

\* Lines 684-686: 1.0 + entropy_raw * 19.0, clamped to [1, 20].
OmegaScale(entropy_raw) ==
    FClamp(UnitDen, 20 * UnitDen, FAffine(entropy_raw, 19, UnitDen))

\* Line 692: granularity_raw clamped to [0, 1].
GuidanceIntervalDecay(granularity_raw) == FClamp(0, UnitDen, granularity_raw)

\* Lines 647-705: the request is read and its parameters mapped. Either a
\* response is returned at once (status 400), or an exception is on its way
\* to the handler of line 745 (raised), or the arguments for the wrapper's
\* infer are ready.
ParseRequest(req) ==
    LET Stop(status, raised, err) ==
            [ok |-> FALSE, status |-> status, raised |-> raised, err |-> err,
             samples |-> << >>, sr |-> ToWide(0),
             num_steps |-> [k |-> "fin", v |-> 0],
             denoise_strength |-> 0,
             guidance_interval |-> [k |-> "nan", v |-> 0],
             omega_scale |-> [k |-> "nan", v |-> 0],
             guidance_interval_decay |-> [k |-> "nan", v |-> 0]]
        b64 == B64Decode(req.audio.v)
        decoded == DecodeWav(req.soundfile, b64.bytes)
        \* int(data.get('num_steps', 20)), line 664: a float is cut to an
        \* int, which Infinity and NaN have none of; an int stays as it is.
        Whole(k, v) == [ok |-> TRUE, err |-> None, n |-> [k |-> k, v |-> v]]
        NoWhole(err) == [ok |-> FALSE, err |-> err, n |-> [k |-> "fin", v |-> 0]]
        num_steps ==
            CASE req.num_steps.t = "absent" -> Whole("fin", 20)
              [] req.num_steps.t = "num" -> Whole("fin", req.num_steps.v)
              [] req.num_steps.t = "huge" -> Whole("huge", req.num_steps.v)
              [] req.num_steps.t = "bigint" -> Whole("bigint", req.num_steps.v)
              [] req.num_steps.t = "inf" ->
                   NoWhole("cannot convert float infinity to integer")
              [] req.num_steps.t = "nan" ->
                   NoWhole("cannot convert float NaN to integer")
              [] req.num_steps.t = "str" ->
                   NoWhole("invalid literal for int() with base 10: 'abc'")
        shift_raw == PyFloat(req.shift, 5 * ShiftDen)
        entropy_raw == PyFloat(req.entropy, UnitDen \div 4)
        granularity_raw == PyFloat(req.granularity, (45 * UnitDen) \div 100)
        denoise_raw == PyFloat(req.denoise_strength, DenoiseDen)
    IN  IF req.body = "not_json"
        THEN Stop(500, TRUE, "400 Bad Request: Failed to decode JSON object")
        ELSE IF req.body = "null"
        THEN Stop(500, TRUE, "argument of type 'NoneType' is not iterable")
        ELSE IF req.audio.t = "absent"
        THEN Stop(400, FALSE, "Missing \"audio\" field (base64-encoded WAV)")
        ELSE IF ~b64.ok THEN Stop(500, TRUE, b64.err)
        ELSE IF ~decoded.ok THEN Stop(500, TRUE, decoded.err)
        ELSE IF ~num_steps.ok THEN Stop(500, TRUE, num_steps.err)
        ELSE IF ~shift_raw.ok THEN Stop(500, TRUE, shift_raw.err)
        ELSE IF ~entropy_raw.ok THEN Stop(500, TRUE, entropy_raw.err)
        ELSE IF ~granularity_raw.ok THEN Stop(500, TRUE, granularity_raw.err)
        ELSE IF ~denoise_raw.ok THEN Stop(500, TRUE, denoise_raw.err)
        ELSE [ok |-> TRUE, status |-> 200, raised |-> FALSE, err |-> None,
              samples |-> decoded.samples, sr |-> decoded.sample_rate,
              num_steps |-> num_steps.n,
              denoise_strength |-> FClamp(0, DenoiseDen, denoise_raw.x).v,
              guidance_interval |-> GuidanceInterval(shift_raw.x),
              omega_scale |-> OmegaScale(entropy_raw.x),
              guidance_interval_decay |-> GuidanceIntervalDecay(granularity_raw.x)]

\* The wrapper's infer was not called.
NotCalled ==
    [kind |-> "return", ret |-> Returned(None, << >>), count |-> 0,
     entered |-> FALSE, steps |-> [k |-> "fin", v |-> 0]]

\* Lines 730-747: the response, given what ParseRequest left (p) and what
\* the wrapper's infer did (r). It carries status and error text, and for
\* a 200 the sample rate, sample count, model_used and model_type; the
\* base64 text of the audio is not carried. With soundfile installed
\* encode_wav_bytes returns what sf.write produced (lines 500-507).
InferResponse(req, p, r) ==
    LET Error(status, err) ==
            [status |-> status, error |-> err, sample_rate |-> ToWide(0),
             num_samples |-> 0, model_used |-> FALSE, model_type |-> None]
        output_wav == IF req.soundfile
                      THEN [ok |-> TRUE, err |-> None, bytes |-> << >>]
                      ELSE EncodeWav(r.ret.val, p.sr)
    IN  IF ~p.ok THEN Error(p.status, p.err)
        ELSE IF r.kind = "raise"
        THEN Error(500, "int too large to convert to float")
        ELSE IF ~output_wav.ok
        THEN Error(500, "'I' format requires 0 <= number <= 4294967295")
        ELSE [status |-> 200, error |-> None, sample_rate |-> p.sr,
              num_samples |-> Len(r.ret.val), model_used |-> is_loaded,
              model_type |-> model_type]

\* A request with only the audio field: a plain float32 mono file, served
\* by a process without soundfile.
BaseRequest ==
    [body |-> "object",
     audio |-> [t |-> "text", v |-> B64Encode(WavBytes(BaseWav))],
     shift |-> [t |-> "absent", v |-> 0],
     entropy |-> [t |-> "absent", v |-> 0],
     granularity |-> [t |-> "absent", v |-> 0],
     num_steps |-> [t |-> "absent", v |-> 0],
     denoise_strength |-> [t |-> "absent", v |-> 0],
     soundfile |-> FALSE]

\* The requests posted to /infer. Each family varies one part of
\* BaseRequest: the body and the audio field; shift, entropy and
\* granularity inside, at the ends of and far outside their ranges;
\* num_steps and denoise_strength, with soundfile installed so that the
\* engine can be reached.
InferRequests ==
    LET Num(v) == [t |-> "num", v |-> v]
        extremes == { [t |-> "huge", v |-> 1], [t |-> "huge", v |-> -1],
                      [t |-> "inf", v |-> 1], [t |-> "inf", v |-> -1],
                      [t |-> "nan", v |-> 0], [t |-> "bigint", v |-> 1],
                      [t |-> "bigint", v |-> -1], [t |-> "str", v |-> 0] }
        Text(b) == [t |-> "text", v |-> B64Encode(b)]
        audios ==
          { [t |-> "absent", v |-> << >>],
            [t |-> "text", v |-> << 16, 16, 16 >>],
            [t |-> "text", v |-> << 16 >>],
            [t |-> "text", v |-> << 16, 20, 9, 3, 66 >>],
            [t |-> "text", v |-> << 16, 20, 9, 3, 16, 20, 9, 3, 16 >>],
            [t |-> "text", v |-> B64Encode(<< 65 >>) \o B64Encode(<< 65, 66, 67 >>)],
            Text(<< 1, 2, 3 >>),
            Text(WavBytes([BaseWav EXCEPT !.riff = << 82, 73, 70, 88 >>])),
            Text(WavBytes([BaseWav EXCEPT !.audio_format = 1])),
            Text(WavBytes([BaseWav EXCEPT !.layout = <<"LIST", "fmt_cut">>])),
            Text(WavBytes([BaseWav EXCEPT !.sample_rate = Wide(16384, 0)])),
            Text(WavBytes([BaseWav EXCEPT !.sample_rate = Wide(16383, 65535)])) }
    IN  { [BaseRequest EXCEPT !.body = b] : b \in {"object", "not_json", "null"} }
        \cup { [BaseRequest EXCEPT !.audio = a] : a \in audios }
        \cup { [BaseRequest EXCEPT !.audio = a, !.soundfile = TRUE] :
                  a \in { [t |-> "absent", v |-> << >>], Text(<< 1, 2, 3 >>) } }
        \cup { [BaseRequest EXCEPT !.shift = x] :
                  x \in extremes \cup { Num(-1000), Num(9), Num(10), Num(55),
                                        Num(100), Num(101), Num(100000) } }
        \cup { [BaseRequest EXCEPT !.entropy = x] :
                  x \in extremes \cup { Num(-300), Num(0), Num(50), Num(100),
                                        Num(101), Num(100000) } }
        \cup { [BaseRequest EXCEPT !.granularity = x] :
                  x \in extremes \cup { Num(-300), Num(0), Num(45), Num(100),
                                        Num(101), Num(100000) } }
        \cup { [BaseRequest EXCEPT !.num_steps = n, !.denoise_strength = d,
                                   !.soundfile = TRUE] :
                  n \in { [t |-> "absent", v |-> 0], [t |-> "str", v |-> 0],
                          Num(-3), Num(0), Num(1), Num(8),
                          [t |-> "huge", v |-> 1], [t |-> "huge", v |-> -1],
                          [t |-> "inf", v |-> 1], [t |-> "nan", v |-> 0],
                          [t |-> "bigint", v |-> 1] },
                  d \in { [t |-> "absent", v |-> 0], Num(-2), Num(0), Num(1),
                          Num(2), Num(6) } }

\* What the engine leaves in its output file for a request: one sample, 0.5.
EngineAudioF32 == [ndim |-> 1, data |-> << F32(0, 126, 0) >>]

\* main() is starting and one request is on its way to the server.
InitRequest ==
    /\ \E e \in ServerEnvironments, path \in ServerPaths : InitWrapper(e, path)
    /\ \E req \in InferRequests : th = << [pc |-> "posted", req |-> req] >>
    /\ tmp_input = None
    /\ codec = IdleCodec
    /\ gen = IdleGen

\* The fields a request must leave alone, as they are when the handler
\* starts.
WrapperSnapshot ==
    [is_loaded |-> is_loaded, device |-> device, model_type |-> model_type,
     load_error |-> load_error, inference_count |-> inference_count]

\* Lines 378-402 of the wrapper and lines 730-747 of the handler: infer
\* ends with the given outcome and the response is built and sent.
AnswerInfer(p, outcome, before) ==
    \E r \in { IF p.ok
               THEN InferResult(p.samples, p.denoise_strength, p.num_steps,
                                outcome,
                                IF outcome = "ok" THEN EngineAudioF32
                                ELSE NoAudio)
               ELSE [NotCalled EXCEPT !.count = inference_count] } :
    \E resp \in { InferResponse(th[1].req, p, r) } :
       /\ inference_count' = r.count
       /\ engine_returns' =
             engine_returns + (IF r.ret.obj = "audio_out" THEN 1 ELSE 0)
       /\ th' = << [pc |-> "answered", req |-> th[1].req] >>
       /\ call' = [op |-> "POST /infer", req |-> th[1].req,
                   parsed |-> p, called |-> p.ok, outcome |-> outcome,
                   infer |-> r, resp |-> resp, before |-> before]

\* The POST /infer that was sent, lines 646-710 and the wrapper's lines
\* 320-378: the request is parsed and, unless parsing stopped the handler,
\* the wrapper's infer is called. The handler answers at once when parsing
\* fails, when infer returns the input at line 321 or 328 or raises at
\* line 329 (a num_steps beyond the range of a double), when the
\* process has no soundfile (the import at line 332 fails), and when
\* os.makedirs or sf.write raises (lines 340-342, caught at line 400);
\* otherwise infer writes the request's samples to
\* <tmp>/nr_bridge_input.wav (line 342) and goes into self.model(...),
\* where it stays until PostInferReturns. One request is sent to the server
\* here.
PostInfer ==
    /\ phase = "ready"
    /\ th[1].pc = "posted"
    /\ \E p \in { ParseRequest(th[1].req) } :
       \E in_try \in { /\ p.ok
                       /\ ReachesEngine(p.denoise_strength)
                       /\ p.num_steps.k # "bigint" } :
          \/ /\ ~in_try
             /\ AnswerInfer(p, None, WrapperSnapshot)
             /\ UNCHANGED << tmp_input, engine_calls >>
          \/ /\ in_try
             /\ ~th[1].req.soundfile
             /\ AnswerInfer(p, "sf_missing", WrapperSnapshot)
             /\ UNCHANGED << tmp_input, engine_calls >>
          \/ /\ in_try
             /\ th[1].req.soundfile
             /\ AnswerInfer(p, "write_raises", WrapperSnapshot)
             /\ UNCHANGED << tmp_input, engine_calls >>
          \/ /\ in_try
             /\ th[1].req.soundfile
             /\ tmp_input' = [owner |-> 1, data |-> p.samples]
             /\ engine_calls' = engine_calls + 1
             /\ th' = << [pc |-> "in_engine", req |-> th[1].req,
                          before |-> WrapperSnapshot] >>
             /\ UNCHANGED << call, inference_count, engine_returns >>
    /\ UNCHANGED << model, model_path, is_loaded, device, requested_device,
                    load_error, model_type, env, mps_patched, codec, gen,
                    phase >>

\* self.model(...) comes back for the request and the handler answers.
PostInferReturns ==
    /\ th[1].pc = "in_engine"
    /\ \E p \in { ParseRequest(th[1].req) } :
       \E outcome \in InsideEngine :
          AnswerInfer(p, outcome, th[1].before)
    /\ UNCHANGED << model, model_path, is_loaded, device, requested_device,
                    load_error, model_type, env, mps_patched, engine_calls,
                    tmp_input, codec, gen, phase >>

NextRequest == CtorLoad \/ PostInfer \/ PostInferReturns

SpecRequest == InitRequest /\ [][NextRequest]_vars

-----------------------------------------------------------------------------
(* Properties of infer, call after call (specification Spec).              *)

WasNotLoaded == ~call.was_loaded \/ call.had_model = NoModel

ReturnedInput == call.ret = Returned("audio_samples", call.audio_samples)

\* C1: while the wrapper is not loaded (is_loaded false or model None), an
\* infer call returns exactly its input samples, does not raise, does not
\* enter the engine, and inference_count is 0 after it (it is 0 in every
\* state in which the wrapper is not loaded).
C1_PassthroughWhenNotLoaded ==
    /\ NotLoaded(is_loaded, model) => inference_count = 0
    /\ (call.op = "infer" /\ WasNotLoaded) =>
          /\ ReturnedInput
          /\ ~call.raised
          /\ ~call.entered
          /\ inference_count = 0
          /\ engine_calls = 0

\* An infer call with a positive denoise on a wrapper whose load left a
\* pipeline object behind but is_loaded false.
C1_Witness ==
    /\ call.op = "infer"
    /\ ~call.was_loaded
    /\ call.had_model # NoModel
    /\ call.denoise > 0
    /\ Len(call.audio_samples) > 0

EngineFailures == EngineOutcomes \ {"ok"}

\* C2: when the wrapper is loaded and the engine path fails (the engine
\* raises, soundfile is missing or raises, or no readable output WAV comes
\* back), infer returns the original input samples, raises nothing, and
\* inference_count is what it was before the call.
C2_EngineFailureIsPassthrough ==
    (call.op = "infer" /\ ~WasNotLoaded /\ call.denoise > 0
       /\ call.outcome \in EngineFailures) =>
          /\ ReturnedInput
          /\ ~call.raised
          /\ inference_count = call.count_before

\* The engine was entered after an earlier success, and the read-back of
\* its output raised.
C2_Witness ==
    /\ call.op = "infer"
    /\ ~WasNotLoaded
    /\ call.outcome = "read_raises"
    /\ call.entered
    /\ call.count_before = 1
    /\ Len(call.audio_samples) > 0

\* C3: over any sequence of load and infer calls, a load leaves
\* inference_count alone, an infer call changes it by 0 or by exactly 1, by 1
\* exactly when the call entered the engine and returned the engine's output;
\* so the count never decreases and equals the number of calls that returned
\* engine output.
C3_CountTracksEngineReturns ==
    /\ inference_count = engine_returns
    /\ call.op = "load" => inference_count = call.count_before
    /\ call.op = "infer" =>
          /\ inference_count - call.count_before \in {0, 1}
          /\ (inference_count = call.count_before + 1)
                <=> (call.entered /\ call.ret.obj = "audio_out")

\* A successful inference followed by a call that entered the engine and
\* fell back to the input.
C3_Witness ==
    /\ call.op = "infer"
    /\ call.entered
    /\ call.ret.obj = "audio_samples"
    /\ call.count_before = 1
    /\ inference_count = 1
    /\ engine_calls = 2

\* C6: when the wrapper is loaded and denoise_strength is 0 or below (it
\* clamps to 0), infer returns the input samples, does not enter the engine
\* and leaves inference_count unchanged.
C6_ZeroDenoiseIsPassthrough ==
    (call.op = "infer" /\ ~WasNotLoaded /\ call.denoise <= 0) =>
          /\ ReturnedInput
          /\ ~call.raised
          /\ ~call.entered
          /\ inference_count = call.count_before

\* A loaded wrapper that has inferred once is called with denoise 0.
C6_Witness ==
    /\ call.op = "infer"
    /\ ~WasNotLoaded
    /\ call.denoise = 0
    /\ call.count_before = 1
    /\ Len(call.audio_samples) > 0

-----------------------------------------------------------------------------
(* Properties of load (specification SpecLoad).                            *)

\* C7, as claimed: after every load attempt that fails, a failed reload
\* after a successful load included, is_loaded is false and load_error holds
\* a non-empty reason.
C7_FailedLoadLeavesUnloaded ==
    (call.op = "load" /\ ~call.ok) =>
          /\ ~is_loaded
          /\ load_error # None
          /\ load_error # ""

\* C8, as claimed: unless the caller named mps itself (the only form of
\* override the command line has), the device load resolves is never mps
\* and MPS is not left available to library code.
C8_NoMpsWithoutOverride ==
    (call.op = "load" /\ call.target # None /\ requested_device # "mps") =>
          /\ call.target # "mps"
          /\ ~MpsIsAvailable

\* C9: in load, a requested "auto" resolves to mps when the mps probe says
\* available, else to cuda when cuda is available, else to cpu; any other
\* requested device is the target verbatim; after a successful load the
\* recorded device is that target, and a loaded wrapper's device is never
\* "auto".
C9_DeviceResolution ==
    /\ is_loaded => device # "auto"
    /\ (call.op = "load" /\ call.target # None) =>
          /\ requested_device = "auto" =>
                call.target = IF env.mps_hw /\ ~mps_patched THEN "mps"
                              ELSE IF env.cuda_hw THEN "cuda"
                              ELSE "cpu"
          /\ requested_device # "auto" => call.target = requested_device
          /\ call.ok => device = call.target

\* --device auto on a machine with cuda and without mps loads on cuda.
C9_Witness ==
    /\ call.op = "load"
    /\ call.ok
    /\ requested_device = "auto"
    /\ env.cuda_hw
    /\ device = "cuda"

-----------------------------------------------------------------------------
(* Properties of the server's worker threads (specification SpecServer).   *)

\* C4, as claimed: at most one engine invocation is in flight at any time.
C4_OneEngineCallInFlight == Cardinality(InEngine) <= 1

AllDone == \A t \in Requests : th[t].pc = "done"

\* C5, as claimed: when every one of the N concurrent requests returned the
\* engine's output, the engine was invoked N times and inference_count is N
\* above its starting value of 0.
C5_NoLostCount ==
    (AllDone /\ \A t \in Requests : th[t].ret = "audio_out") =>
          /\ engine_calls = NumRequests
          /\ inference_count = NumRequests

-----------------------------------------------------------------------------
(* Properties of the manual WAV codec (specification SpecCodec).           *)

\* C10, as claimed: for every mono float32 buffer of every length, 0 and 1
\* included, and every sample rate, decoding the encoding succeeds and gives
\* back the same samples and the same sample rate.
C10_RoundTrip ==
    codec.stage = "decoded" =>
          /\ codec.decoded.ok
          /\ Len(codec.decoded.samples) = Len(codec.samples)
          /\ codec.decoded.samples = codec.samples
          /\ codec.decoded.sample_rate = codec.sample_rate

-----------------------------------------------------------------------------
(* Properties of decode_wav_bytes on foreign files (SpecDecode).           *)

WholeWav ==
    /\ codec.stage = "wav_decoded"
    /\ codec.input.kind = "wav"
    /\ codec.input.cut = -1
    /\ codec.input.riff = << 82, 73, 70, 70 >>
    /\ codec.input.wave = << 87, 65, 86, 69 >>

\* The first chunk of one of the kinds that a walk from offset 12 comes to
\* when it skips each chunk by its declared size: chunk i is come to unless
\* an earlier chunk declares more bytes than the file holds. 0 when none.
FirstReached(kinds) ==
    LET layout == codec.input.layout
        hits == { i \in 1..Len(layout) :
                    /\ layout[i] \in kinds
                    /\ \A j \in 1..(i - 1) : layout[j] # "LIST_big" }
    IN  IF hits = {} THEN 0 ELSE CHOOSE i \in hits : \A j \in hits : i <= j

\* C12, as claimed: walking the chunks from offset 12 and skipping unknown
\* chunks by their declared size, the decoder raises the missing-chunk error
\* whenever no fmt chunk or no data chunk is reached before the end of the
\* buffer, and whenever a data chunk is met before any fmt chunk; it returns
\* samples only with the format fields parsed from the fmt chunk.
C12_MissingChunkFails ==
    WholeWav =>
       LET fmt_at == FirstReached({"fmt", "fmt_cut"})
           data_at == FirstReached({"data", "data_empty"})
           missing == /\ ~codec.decoded.ok
                      /\ codec.decoded.samples = << >>
                      /\ codec.decoded.err = "Missing fmt or data chunk in WAV"
       IN  /\ (fmt_at = 0 \/ data_at = 0) => missing
           /\ (data_at # 0 /\ (fmt_at = 0 \/ data_at < fmt_at)) => missing
           /\ codec.decoded.ok =>
                 /\ fmt_at # 0 /\ fmt_at < data_at
                 /\ codec.decoded.sample_rate = codec.input.sample_rate

\* C13, as claimed: decode_wav_bytes decodes the sample data of a WAV file
\* only for (format 3, 32 bits), (format 1, 16 bits) and (format 1, 24
\* bits); for every other (format, bits) pair read from the fmt chunk it
\* raises the unsupported-format error and returns no samples.
C13_OnlyThreeFormatsDecode ==
    WholeWav =>
       LET pair == << codec.input.audio_format, codec.input.bits_per_sample >>
           supported == pair \in { <<3, 32>>, <<1, 16>>, <<1, 24>> }
           fmt_at == FirstReached({"fmt"})
           data_at == FirstReached({"data", "data_empty"})
           fmt_read == fmt_at # 0 /\ (data_at = 0 \/ fmt_at < data_at)
       IN  /\ codec.decoded.ok => supported
           /\ (fmt_read /\ ~supported) =>
                 /\ ~codec.decoded.ok
                 /\ codec.decoded.samples = << >>
                 /\ codec.decoded.err = "Unsupported WAV format"

-----
(* Properties of the manual encoder (SpecCodec).                           *)

\* The unsigned little-endian number in bytes lo..hi (1-based) of b.
LE(b, lo, hi) ==
    LET RECURSIVE U(_)
        U(i) == IF i > hi THEN 0 ELSE b[i] + 256 * U(i + 1)
    IN  U(lo)

\* C14: for a buffer of L samples and sample rate sr, what the manual
\* encoder returns is 44 + 4L bytes long, begins with 'RIFF', has 'WAVE' at
\* offset 8, 'fmt ' at 12 and 'data' at 36, and carries RIFF size 36 + 4L,
\* fmt size 16, format 3, 1 channel, sample rate sr, byte rate 4 * sr, block
\* align 4, 32 bits per sample and data size 4L; the sizes are the byte
\* lengths of what follows them.
C14_HeaderFields ==
    (codec.stage \in {"encoded", "decoded"} /\ codec.encoded.ok) =>
       LET b == codec.encoded.bytes
           L == Len(codec.samples)
           sr == codec.sample_rate
       IN  /\ Len(b) = 44 + 4 * L
           /\ SubSeq(b, 1, 4) = << 82, 73, 70, 70 >>
           /\ LE(b, 5, 8) = 36 + 4 * L
           /\ LE(b, 5, 8) = Len(b) - 8
           /\ SubSeq(b, 9, 12) = << 87, 65, 86, 69 >>
           /\ SubSeq(b, 13, 16) = << 102, 109, 116, 32 >>
           /\ LE(b, 17, 20) = 16
           /\ LE(b, 21, 22) = 3
           /\ LE(b, 23, 24) = 1
           /\ LE(b, 25, 26) = sr.lo /\ LE(b, 27, 28) = sr.hi
           /\ LE(b, 29, 30) = (4 * sr.lo) % 65536
           /\ LE(b, 31, 32) = 4 * sr.hi + (4 * sr.lo) \div 65536
           /\ LE(b, 33, 34) = 4
           /\ LE(b, 35, 36) = 32
           /\ SubSeq(b, 37, 40) = << 100, 97, 116, 97 >>
           /\ LE(b, 41, 44) = 4 * L
           /\ LE(b, 41, 44) = Len(b) - 44

\* Two samples were encoded at 2^30 - 1 Hz, the largest rate whose byte
\* rate fits its field.
C14_Witness ==
    /\ codec.stage = "encoded"
    /\ codec.encoded.ok
    /\ Len(codec.samples) = 2
    /\ codec.sample_rate = [hi |-> 16383, lo |-> 65535]

-----------------------------------------------------------------------------
(* Properties of the /infer handler (SpecRequest).                         *)

Answered == call.op = "POST /infer"

\* C15, as claimed: encode_wav_bytes has no error path; it succeeds for
\* every buffer and every sample rate decode_wav_bytes can return, so every
\* request whose audio decodes and whose samples come back from the wrapper
\* unchanged (passthrough) is answered 200 with the same number of samples
\* at the same rate.
C15_EncodeNeverFails ==
    (Answered /\ call.parsed.ok /\ call.infer.ret.obj = "audio_samples") =>
       /\ call.resp.status = 200
       /\ call.resp.num_samples = Len(call.parsed.samples)
       /\ call.resp.sample_rate = call.parsed.sr

\* C16, as claimed: whatever numbers a request gives for shift, entropy and
\* granularity, they are mapped and not rejected; guidance_interval lies in
\* [0.1, 0.9], omega_scale in [1, 20] and guidance_interval_decay in [0, 1];
\* a number below its range maps to the lower bound and one above it to the
\* upper bound; shift 1 gives 0.1, shift 10 gives 0.9, entropy 0 gives 1 and
\* entropy 1 gives 20.
C16_MappingSaturates ==
    (/\ Answered
     /\ [call.req EXCEPT !.shift = BaseRequest.shift,
                         !.entropy = BaseRequest.entropy,
                         !.granularity = BaseRequest.granularity] = BaseRequest
     /\ call.req.shift.t # "str"
     /\ call.req.entropy.t # "str"
     /\ call.req.granularity.t # "str") =>
       LET gi == call.parsed.guidance_interval
           om == call.parsed.omega_scale
           gd == call.parsed.guidance_interval_decay
           Below(j, lo) == \/ j.t \in {"huge", "inf", "bigint"} /\ j.v < 0
                           \/ j.t = "num" /\ j.v < lo
           Above(j, hi) == \/ j.t \in {"huge", "inf", "bigint"} /\ j.v > 0
                           \/ j.t = "num" /\ j.v > hi
       IN  /\ call.parsed.ok
           /\ call.resp.status = 200
           /\ gi.k = "fin" /\ 90 <= gi.v /\ gi.v <= 810
           /\ om.k = "fin" /\ 100 <= om.v /\ om.v <= 2000
           /\ gd.k = "fin" /\ 0 <= gd.v /\ gd.v <= 100
           /\ Below(call.req.shift, 10) => gi.v = 90
           /\ Above(call.req.shift, 100) => gi.v = 810
           /\ Below(call.req.entropy, 0) => om.v = 100
           /\ Above(call.req.entropy, 100) => om.v = 2000
           /\ Below(call.req.granularity, 0) => gd.v = 0
           /\ Above(call.req.granularity, 100) => gd.v = 100
           /\ call.req.shift = [t |-> "num", v |-> 10] => gi.v = 90
           /\ call.req.shift = [t |-> "num", v |-> 100] => gi.v = 810
           /\ call.req.entropy = [t |-> "num", v |-> 0] => om.v = 100
           /\ call.req.entropy = [t |-> "num", v |-> 100] => om.v = 2000

\* C17, as claimed: whenever the engine is invoked for a request, the step
\* count passed is max(1, round(num_steps * denoise_strength)) with
\* denoise_strength clamped to [0, 1], and 1 <= effective_steps <= num_steps
\* for every num_steps and denoise_strength the request carried.
C17_EffectiveStepsInRange ==
    (Answered /\ call.infer.entered) =>
       LET n == call.parsed.num_steps
           steps == call.infer.steps
           ds == call.parsed.denoise_strength
           x == n.v * ds
           nearest == IF 2 * (x % 4) < 4 \/ (2 * (x % 4) = 4 /\ (x \div 4) % 2 = 0)
                      THEN x \div 4 ELSE x \div 4 + 1
       IN  /\ 0 < ds /\ ds <= 4
           /\ n.k = "fin" =>
                 /\ steps.k = "fin"
                 /\ steps.v = (IF nearest > 1 THEN nearest ELSE 1)
                 /\ 1 <= steps.v
                 /\ steps.v <= n.v
           \* an integer of 300 digits or more: the steps are of that size too
           /\ n.k # "fin" => (n.v > 0 /\ steps.k = n.k)

\* C19, as claimed: a request with no 'audio' field, a malformed body or
\* field value, or audio the codec rejects is answered with a 4xx status and
\* a non-empty error message, does not reach the engine and leaves
\* is_loaded, device, model_type, load_error and inference_count as they
\* were.
C19_BadRequestIsClientError ==
    (Answered /\ ~call.parsed.ok) =>
       /\ 400 <= call.resp.status /\ call.resp.status <= 499
       /\ call.resp.error # None /\ call.resp.error # ""
       /\ ~call.infer.entered
       /\ engine_calls = 0
       /\ call.before = [is_loaded |-> is_loaded, device |-> device,
                         model_type |-> model_type, load_error |-> load_error,
                         inference_count |-> inference_count]

\* ---------------------------------------------------------------------
\* generate_koenig_seed.py: euclidean_rhythm(pulses, steps)
\* ---------------------------------------------------------------------

\* Largest step count the rhythm is asked for.
MaxSteps == 13

\* --pulses and --steps are parsed with type=int: the arguments go down to
\* -MaxNegative.
MaxNegative == 2

\* Python's [x] * n: n copies of x, the empty list when n <= 0.
Repeat(x, n) == [i \in 1..n |-> x]

\* A loop body that forgets the unmerged pattern groups.
MergeStep_DropLeftover(pattern, remainder) ==
    LET take == Min(Len(pattern), Len(remainder))
    IN  [pattern   |-> [i \in 1..take |-> pattern[i] \o remainder[i]],
         remainder |-> SubSeq(remainder, take + 1, Len(remainder))]

\* A loop body that merges each pair with the remainder group in front.
MergeStep_RemainderFirst(pattern, remainder) ==
    LET take == Min(Len(pattern), Len(remainder))
    IN  [pattern   |-> [i \in 1..take |-> remainder[i] \o pattern[i]],
         remainder |-> SubSeq(pattern, take + 1, Len(pattern))
                       \o SubSeq(remainder, take + 1, Len(remainder))]

\* One pass of the while loop: the first `take` groups of each list are
\* merged pairwise, what is left of both lists becomes the remainder.
MergeStep(pattern, remainder) ==
    LET take == Min(Len(pattern), Len(remainder))
        merged == [i \in 1..take |-> pattern[i] \o remainder[i]]
        leftover_pattern == SubSeq(pattern, take + 1, Len(pattern))
        leftover_remainder == SubSeq(remainder, take + 1, Len(remainder))
    IN  [pattern |-> merged, remainder |-> leftover_pattern \o leftover_remainder]

\* The state of one call: its arguments, its locals, its result, and the
\* result of the previous call with the same arguments.
GenState(pc, pulses, steps, pattern, remainder, result, calls, prev) ==
    [pc |-> pc, pulses |-> pulses, steps |-> steps, pattern |-> pattern,
     remainder |-> remainder, result |-> result, calls |-> calls, prev |-> prev]

\* Entry of euclidean_rhythm up to the loop: the two early returns, or the
\* initial groups. A first call picks its arguments, a second call repeats
\* the arguments of the first.
RhythmCall ==
    /\ \E pulses \in (-MaxNegative)..(MaxSteps + 1),
          steps \in (-MaxNegative)..MaxSteps :
          /\ \/ gen.pc = "idle"
             \/ gen.pc = "returned" /\ gen.calls = 1
                  /\ pulses = gen.pulses /\ steps = gen.steps
          /\ LET calls == IF gen.pc = "idle" THEN 1 ELSE 2
                 prev  == IF gen.pc = "idle" THEN << >> ELSE gen.result
             IN  gen' = IF pulses >= steps
                        THEN GenState("returned", pulses, steps, << >>, << >>,
                                      Repeat(1, steps), calls, prev)
                        ELSE IF pulses = 0
                        THEN GenState("returned", pulses, steps, << >>, << >>,
                                      Repeat(0, steps), calls, prev)
                        ELSE GenState("loop", pulses, steps, Repeat(<< 1 >>, pulses),
                                      Repeat(<< 0 >>, steps - pulses), << >>,
                                      calls, prev)
    /\ UNCHANGED << model, model_path, is_loaded, device, requested_device,
                    load_error, model_type, inference_count, env, mps_patched,
                    engine_calls, engine_returns, call, th, tmp_input, codec,
                    phase >>

\* One iteration of `while len(remainder) > 1`.
RhythmLoop ==
    /\ gen.pc = "loop"
    /\ Len(gen.remainder) > 1
    /\ \E m \in { MergeStep(gen.pattern, gen.remainder) } :
          gen' = [gen EXCEPT !.pattern = m.pattern, !.remainder = m.remainder]
    /\ UNCHANGED << model, model_path, is_loaded, device, requested_device,
                    load_error, model_type, inference_count, env, mps_patched,
                    engine_calls, engine_returns, call, th, tmp_input, codec,
                    phase >>

\* Loop exit: the groups' elements are concatenated in order and returned.
RhythmReturn ==
    /\ gen.pc = "loop"
    /\ Len(gen.remainder) <= 1
    /\ gen' = [gen EXCEPT !.pc = "returned",
                          !.result = Flatten(gen.pattern \o gen.remainder)]
    /\ UNCHANGED << model, model_path, is_loaded, device, requested_device,
                    load_error, model_type, inference_count, env, mps_patched,
                    engine_calls, engine_returns, call, th, tmp_input, codec,
                    phase >>

NextRhythm == RhythmCall \/ RhythmLoop \/ RhythmReturn

\* The seed generator's rhythm function, called twice per choice of
\* arguments; the bridge server is not involved.
SpecRhythm == Init /\ [][NextRhythm]_vars

\* The interpreter keeps running the call: a step that can change the state
\* is eventually taken.
SpecRhythmFair == SpecRhythm /\ WF_vars(NextRhythm)

\* ---------------------------------------------------------------------
\* Properties of euclidean_rhythm
\* ---------------------------------------------------------------------

\* Number of ones in a pattern.
Ones(result) == Cardinality({ i \in 1..Len(result) : result[i] = 1 })

\* C18: for 0 <= pulses <= steps the returned pattern has exactly `steps`
\* entries, each 0 or 1, exactly `pulses` of them 1; it is all zeros for
\* pulses = 0 and all ones for pulses >= steps; a second call with the same
\* arguments returns the same pattern; and E(5, 13) is 1001010010100.
C18_RhythmLengthAndPulses ==
    (gen.pc = "returned" /\ 0 <= gen.pulses /\ gen.pulses <= gen.steps) =>
        /\ Len(gen.result) = gen.steps
        /\ \A i \in 1..Len(gen.result) : gen.result[i] \in {0, 1}
        /\ Ones(gen.result) = gen.pulses
        /\ gen.pulses = 0 => gen.result = Repeat(0, gen.steps)
        /\ gen.pulses >= gen.steps => gen.result = Repeat(1, gen.steps)
        /\ gen.calls = 2 => gen.result = gen.prev
        /\ (gen.pulses = 5 /\ gen.steps = 13) =>
              gen.result = << 1, 0, 0, 1, 0, 1, 0, 0, 1, 0, 1, 0, 0 >>

\* The second call of E(5, 13) has returned after running the loop.
C18_Witness ==
    /\ gen.pc = "returned"
    /\ gen.pulses = 5 /\ gen.steps = 13
    /\ gen.calls = 2
    /\ Len(gen.pattern) > 0
    /\ Ones(gen.result) = 5

\* ---------------------------------------------------------------------
\* Start-up order: the load and the first request
\* ---------------------------------------------------------------------

\* The fields load() assigns.
LoadFields == << model, is_loaded, device, load_error, model_type >>

\* The constructor's load has made its transition: the wrapper is loaded,
\* or it is unloaded with the reason recorded. Without a model path no load
\* is attempted.
LoadSettled ==
    \/ model_path = NoPath /\ ~is_loaded /\ load_error = None
    \/ model_path # NoPath /\ call # NoCall /\ is_loaded
    \/ model_path # NoPath /\ call # NoCall /\ ~is_loaded /\ load_error # None

\* C20: a /health, /status or /infer request is picked up only when the
\* start-up load has completed its transition; the fields load() assigns
\* change in one step only, taken before any request has begun, and that
\* step is never taken a second time.
C20_NoRequestSeesLoading ==
    /\ []((\E t \in Requests : th[t].pc # "idle") =>
             (phase = "ready" /\ LoadSettled))
    /\ [][(LoadFields' # LoadFields \/ phase' # phase) =>
             /\ phase = "ctor" /\ phase' = "ready"
             /\ \A t \in Requests : th[t].pc = "idle" /\ th'[t].pc = "idle"]_vars

\* After a start-up load that failed, one request got its /status answer
\* and another its /infer answer.
C20_Witness ==
    /\ phase = "ready"
    /\ call # NoCall /\ call.op = "load" /\ ~call.ok
    /\ load_error # None
    /\ \E t, u \in Requests :
          /\ th[t].pc = "done" /\ th[t].ret = "status"
          /\ th[u].pc = "done" /\ th[u].ret = "audio_samples"

\* Distance from the one at position p to the next one, reading the pattern
\* as a cycle (a lone one is at distance Len(result) from itself).
CyclicGap(result, p) ==
    LET n == Len(result)
        at(d) == result[((p - 1 + d) % n) + 1]
    IN  CHOOSE d \in 1..n : at(d) = 1 /\ \A e \in 1..(d - 1) : at(e) # 1

\* The distances between consecutive ones of a pattern.
Gaps(result) ==
    { CyclicGap(result, p) : p \in { i \in 1..Len(result) : result[i] = 1 } }

\* C21: for 0 < pulses < steps the returned pattern starts with a one and,
\* read cyclically, the distances between consecutive ones are only
\* floor(steps / pulses) and ceil(steps / pulses).
C21_EvenlyDistributed ==
    (gen.pc = "returned" /\ 0 < gen.pulses /\ gen.pulses < gen.steps) =>
        /\ gen.result[1] = 1
        /\ Gaps(gen.result) \subseteq
              { gen.steps \div gen.pulses,
                (gen.steps + gen.pulses - 1) \div gen.pulses }

\* A pattern whose step count is not a multiple of its pulses was returned
\* after several passes of the loop, and both distances occur in it.
C21_Witness ==
    /\ gen.pc = "returned"
    /\ gen.pulses = 4 /\ gen.steps = 11
    /\ Len(gen.pattern) < gen.pulses
    /\ Gaps(gen.result) = {2, 3}

\* The pass of the loop about to run leaves fewer groups than it found.
PassReducesGroups ==
    LET m == MergeStep(gen.pattern, gen.remainder)
    IN  Len(m.pattern) + Len(m.remainder) < Len(gen.pattern) + Len(gen.remainder)

\* C25: every call of euclidean_rhythm returns, whatever integers it was
\* given: each pass of the merge loop reduces the number of groups, and a
\* call that has entered the loop leaves it.
C25_RhythmTerminates ==
    /\ []((gen.pc = "loop" /\ Len(gen.remainder) > 1) => PassReducesGroups)
    /\ (gen.pc = "loop") ~> (gen.pc = "returned")

\* ---------------------------------------------------------------------
\* generate_koenig_seed.py: generate_koenig_seed
\* ---------------------------------------------------------------------

\* Longest --duration, in quarter seconds.
MaxQuarters == 4

\* --sample-rate values, in Hz, and --noise-tail-ms values. With durations
\* in quarter seconds the float products of lines 80 and 92 are exact.
SeedRates == {4, 6, 8}
NoiseTailMs == {0, 250, 1000}

\* Python's a // b for a >= 0 and b # 0: rounded towards minus infinity.
FloorDiv(a, b) == IF b > 0 THEN a \div b ELSE -((a + (-b) - 1) \div (-b))

RECURSIVE PlacePulses(_, _, _, _, _)
\* Lines 98-116: the loop over enumerate(rhythm) from step_idx on. A sample
\* is "0.0", "1.0" or "noise", a value drawn by np.random.normal. writes
\* collects every index assigned.
PlacePulses(st, rhythm, step_idx, samples_per_step, noise_tail_samples) ==
    IF step_idx >= Len(rhythm) THEN st
    ELSE LET total_samples == Len(st.audio)
             sample_pos == step_idx * samples_per_step
             tail_end == Min(sample_pos + 1 + noise_tail_samples, total_samples)
             tail_length == tail_end - sample_pos - 1
             tail == IF tail_length > 0 THEN (sample_pos + 1)..(tail_end - 1) ELSE {}
             placed ==
                 [audio |-> [i \in 1..total_samples |->
                               IF i - 1 = sample_pos THEN "1.0"
                               ELSE IF (i - 1) \in tail THEN "noise"
                               ELSE st.audio[i]],
                  impulse_count |-> st.impulse_count + 1,
                  writes |-> st.writes \cup {sample_pos} \cup tail]
         IN  PlacePulses(IF rhythm[step_idx + 1] = 0 \/ sample_pos >= total_samples
                         THEN st ELSE placed,
                         rhythm, step_idx + 1, samples_per_step, noise_tail_samples)

\* Lines 80-116 after the rhythm is known: the buffer of zeros, the two
\* lengths, and the pulses placed in it. steps = 0 raises at line 91.
SeedBuffer(rhythm, steps, total_samples, noise_tail_samples) ==
    IF steps = 0
    THEN [raised |-> "ZeroDivisionError", audio |-> << >>, impulse_count |-> 0,
          writes |-> {}, samples_per_step |-> 0]
    ELSE LET samples_per_step == FloorDiv(total_samples, steps)
             st == PlacePulses([audio |-> Repeat("0.0", total_samples),
                                impulse_count |-> 0, writes |-> {}],
                               rhythm, 0, samples_per_step, noise_tail_samples)
         IN  [raised |-> None, audio |-> st.audio,
              impulse_count |-> st.impulse_count, writes |-> st.writes,
              samples_per_step |-> samples_per_step]

InitSeed ==
    /\ InitWrapper([argv |-> << >>, torch |-> TRUE, mps_hw |-> FALSE,
                    cuda_hw |-> FALSE], NoPath)
    /\ th = IdleThreads
    /\ tmp_input = None
    /\ codec = IdleCodec
    /\ gen = IdleGen

\* generate_koenig_seed once euclidean_rhythm (line 81) has returned:
\* total_samples = int(duration * sample_rate), noise_tail_samples =
\* int(noise_tail_ms / 1000.0 * sample_rate), then the buffer.
SeedSynthesize ==
    /\ gen.pc = "returned"
    /\ gen.calls = 1
    /\ \E quarters \in 0..MaxQuarters, sample_rate \in SeedRates,
          noise_tail_ms \in NoiseTailMs :
       \E total_samples \in { (quarters * sample_rate) \div 4 } :
       \E noise_tail_samples \in { (noise_tail_ms * sample_rate) \div 1000 } :
       \E b \in { SeedBuffer(gen.result, gen.steps, total_samples,
                             noise_tail_samples) } :
          gen' = [pc |-> "seed", pulses |-> gen.pulses, steps |-> gen.steps,
                  rhythm |-> gen.result, total_samples |-> total_samples,
                  noise_tail_samples |-> noise_tail_samples,
                  samples_per_step |-> b.samples_per_step,
                  raised |-> b.raised, audio |-> b.audio,
                  impulse_count |-> b.impulse_count, writes |-> b.writes]
    /\ UNCHANGED << model, model_path, is_loaded, device, requested_device,
                    load_error, model_type, inference_count, env, mps_patched,
                    engine_calls, engine_returns, call, th, tmp_input, codec,
                    phase >>

NextSeed == RhythmCall \/ RhythmLoop \/ RhythmReturn \/ SeedSynthesize

\* One run of the seed generator up to the synthesized buffer.
SpecSeed == InitSeed /\ [][NextSeed]_vars

\* The sample positions line 103 computes for the steps that are pulses.
ImpulsePositions ==
    { (i - 1) * gen.samples_per_step :
        i \in { k \in 1..Len(gen.rhythm) : gen.rhythm[k] = 1 } }

\* C22: with steps >= 1 the buffer has total_samples samples; every pulse
\* step has a 1.0 at its position; a sample that is no impulse position and
\* not within noise_tail_samples after one is 0.0; nothing is written
\* outside the buffer; and there are as many distinct impulse positions as
\* pulses.
C22_SeedBuffer ==
    (gen.pc = "seed" /\ gen.steps >= 1) =>
        /\ gen.raised = None
        /\ Len(gen.audio) = gen.total_samples
        /\ \A p \in ImpulsePositions :
              p < gen.total_samples /\ gen.audio[p + 1] = "1.0"
        /\ \A j \in 0..(gen.total_samples - 1) :
              (\A p \in ImpulsePositions :
                  ~(p <= j /\ j <= p + gen.noise_tail_samples))
                 => gen.audio[j + 1] = "0.0"
        /\ gen.writes \subseteq 0..(gen.total_samples - 1)
        /\ Cardinality(ImpulsePositions) = Ones(gen.rhythm)

\* ---------------------------------------------------------------------
\* The model state while requests are served
\* ---------------------------------------------------------------------

\* C23: once the start-up load has completed, no step of an /infer, /health
\* or /status request changes is_loaded, device, model_type or load_error
\* (nor the model object): a request changes inference_count at most.
C23_LoadStateIsFrozen ==
    [][phase = "ready" =>
          /\ is_loaded' = is_loaded
          /\ device' = device
          /\ model_type' = model_type
          /\ load_error' = load_error
          /\ model' = model]_vars

\* With a model loaded, one request was answered with the engine's audio
\* and counted, the other went into the engine, failed and was answered by
\* passthrough.
C23_Witness ==
    /\ phase = "ready" /\ is_loaded
    /\ engine_calls = 2 /\ engine_returns = 1
    /\ inference_count = 1
    /\ \E t, u \in Requests :
          /\ th[t].pc = "done" /\ th[t].ret = "audio_out"
          /\ th[u].pc = "done" /\ th[u].ret = "audio_samples"

\* C24: the reference audio the engine reads for a request is the audio
\* that request wrote to the temporary input file.
C24_EngineReadsOwnAudio ==
    \A t \in Requests :
        th[t].pc = "engine_running" => th[t].ref_read = t

\* C26: a 200 response of /infer says model_used = true only when the audio
\* it carries is the engine's output for that request; a request answered
\* by passthrough says model_used = false.
C26_ModelUsedMeansEngineAudio ==
    (Answered /\ call.resp.status = 200) =>
        (call.resp.model_used <=> call.infer.ret.obj = "audio_out")


====
